---- MODULE Spec2Model ----
(***************************************************************************)
(* A model of analog, the access-log ingestion pipeline:                   *)
(*   - atomic_update (src/analog/atomic_update.py), the file replacement   *)
(*     primitive, under SpecAU; with instances open side by side under     *)
(*     SpecConcurrent; with repeated and failing close() under SpecClose;  *)
(*   - parse_line (src/analog/parser.py) with the labels of label.py,      *)
(*     under SpecParse;                                                    *)
(*   - DataManager.prepare_log_data (src/analog/data_manager.py) over a    *)
(*     data root, run after run, with Coverage, the frames' schemas        *)
(*     (schema.py) and interruptions, under SpecPipe;                      *)
(*   - ingest_all_access_logs alone, over raw logs of any lines and of two *)
(*     domains, under SpecIngest;                                          *)
(*   - a Coverage used on its own, under SpecCov;                          *)
(*   - schema.validate over frames of any shape, under SpecValidate;       *)
(*   - MonthInYear arithmetic (month_in_year.py), under SpecMonth;         *)
(*   - BotDetector.test and lookup (bot_detector.py), under SpecBot;       *)
(*   - the enrichment passes of parser.py over a batch, under SpecEnrich.  *)
(* Every specification constrains all variables; the variables of the      *)
(* parts a specification does not exercise stay at their initial value.    *)
(***************************************************************************)
EXTENDS Integers, Sequences, FiniteSets, TLC

VARIABLES
    target,     \* atomic_update: the file at self._target
    tmps,       \* atomic_update: the temp siblings "<name>-*" in target's directory
    upd,        \* atomic_update: the instances (self._file, self._tmp, the buffer)
    pline,      \* parse_line: the line passed in
    pres,       \* parse_line: what the call did ("pending" before it)
    raw,        \* data root: access-logs/<domain>-ssl_log-<mmm>-<yyyy>.gz by month
    monthly,    \* data root: enriched-logs/<domain>-<yyyy>-<mm>.parquet by month
    masters,    \* data root: <domain>-<begin>-<end>.parquet by range
    covfiles,   \* data root: <domain>-<begin>-<end>.json by range
    hostdb,     \* data root: hostnames.json, the entry of the clients' address
    pc,         \* DataManager: where prepare_log_data is
    mgr,        \* DataManager: its fields
    loop,       \* DataManager: the locals of the method that is running
    last,       \* history: the table prepare_log_data returned last, NoFrame
                \* before that and once a raw log has arrived since
    val,        \* schema.validate: the frame passed in and what the call did
    enr,        \* parser.enrich_*: log_data, hostnames.json and the backends
    miy,        \* MonthInYear: the operands and the values computed from them
    det         \* BotDetector: self._cache and what the calls returned

auVars == <<target, tmps, upd>>
parseVars == <<pline, pres>>
diskVars == <<raw, monthly, masters, covfiles, hostdb>>
runVars == <<pc, mgr, loop>>
pipeVars == <<raw, monthly, masters, covfiles, hostdb, pc, mgr, loop, last>>
libVars == <<val, enr, miy, det>>
vars == <<target, tmps, upd, pline, pres, raw, monthly, masters, covfiles, hostdb,
          pc, mgr, loop, last, val, enr, miy, det>>
\* what the steps of atomic_update leave alone
nonAuVars == <<pline, pres, pipeVars, libVars>>

(***************************************************************************)
(* Bounds.                                                                 *)
(***************************************************************************)
MaxUpdaters == 2    \* atomic_update instances created in one behaviour
MaxTmp == 2         \* names mkstemp can choose from
MaxWrites == 2      \* write() calls per instance

(***************************************************************************)
(* Files.  A path holds no file or a file with its data (a sequence of the *)
(* chunks that reached it).                                                *)
(***************************************************************************)
Absent == [exists |-> FALSE, data |-> <<>>]
File(d) == [exists |-> TRUE, data |-> d]

\* the text of instance w is made of chunks marked w; the target's text before
\* the first update is marked 0
Chunk(w) == w
Original == <<0>>
Updaters == 1..MaxUpdaters
TmpNames == 1..MaxTmp

(***************************************************************************)
(* atomic_update.  An instance is "none" before __init__, "open" while     *)
(* self._file is a file object, "closed" once close() set it to None, and  *)
(* "dead" when the process was killed while it was open.  buf is the part  *)
(* of the written text still in the file object's buffer.  wrote (all      *)
(* text passed to write), prior (the target as __init__ found it), how     *)
(* (how the first close() ended), calls (the calls of close() so far) and  *)
(* commit and raised (the argument of the last call of close() and whether *)
(* an exception left it) are history the claims refer to.                  *)
(***************************************************************************)
NoUpdater ==
    [st |-> "none", tmp |-> 0, buf |-> <<>>, wrote |-> <<>>,
     prior |-> Absent, how |-> "none", calls |-> 0, commit |-> FALSE,
     raised |-> FALSE]

\* a mkstemp that takes a name in use and empties the file
mkstemp_reuses(n) ==
    /\ tmps' = [tmps EXCEPT ![n] = File(<<>>)]

\* mkstemp(dir=dir, prefix=name + "-"): creates, exclusively, a new empty file
mkstemp(n) ==
    /\ ~tmps[n].exists
    /\ tmps' = [tmps EXCEPT ![n] = File(<<>>)]

\* atomic_update.__init__
AuInit(w, n) ==
    /\ upd[w].st = "none"
    /\ mkstemp(n)
    /\ upd' = [upd EXCEPT ![w] = [st |-> "open", tmp |-> n, buf |-> <<>>,
                                  wrote |-> <<>>, prior |-> target, how |-> "none",
                                  calls |-> 0, commit |-> FALSE, raised |-> FALSE]]
    /\ UNCHANGED <<target, nonAuVars>>

\* the single-writer use of the spec: one instance is open at a time
AuNew(w, n) ==
    /\ \A v \in Updaters : upd[v].st # "open"
    /\ \A v \in Updaters : v < w => upd[v].st # "none"
    /\ AuInit(w, n)

\* file.write(...), reached through __getattr__: the text goes to the buffer
AuWrite(w) ==
    /\ upd[w].st = "open"
    /\ Len(upd[w].wrote) < MaxWrites
    /\ upd' = [upd EXCEPT ![w].buf = Append(@, Chunk(w)),
                           ![w].wrote = Append(@, Chunk(w))]
    /\ UNCHANGED <<target, tmps, nonAuVars>>

\* a close() that forgets the text still in the buffer
FlushedDropsBuffer(w) == File(tmps[upd[w].tmp].data)

\* what the temp file holds once the buffer is written out
Flushed(w) == File(tmps[upd[w].tmp].data \o upd[w].buf)

\* file.flush(), called by the body or by the file object when its buffer fills
AuFlush(w) ==
    /\ upd[w].st = "open"
    /\ upd[w].buf # <<>>
    /\ tmps' = [tmps EXCEPT ![upd[w].tmp] = Flushed(w)]
    /\ upd' = [upd EXCEPT ![w].buf = <<>>]
    /\ UNCHANGED <<target, nonAuVars>>

\* os.replace(self._tmp, self._target): one rename, the temp name disappears
replace(w) ==
    /\ target' = Flushed(w)
    /\ tmps' = [tmps EXCEPT ![upd[w].tmp] = Absent]

\* an abort that removes the temp file
AbortDiscardsTmp(w) ==
    /\ tmps' = [tmps EXCEPT ![upd[w].tmp] = Absent]
    /\ UNCHANGED target

\* an abort that renames all the same
AbortRenames(w) ==
    /\ target' = File(tmps[upd[w].tmp].data \o upd[w].buf)
    /\ tmps' = [tmps EXCEPT ![upd[w].tmp] = Absent]

\* the abort of close(): the temp file is closed and stays where it is
AbortKeepsTmp(w) ==
    /\ tmps' = [tmps EXCEPT ![upd[w].tmp] = Flushed(w)]
    /\ UNCHANGED target

\* atomic_update.close(commit): file.close() writes the buffer out, then the
\* rename if commit; a second call finds self._file None and returns
close(w, commit, how) ==
    /\ upd[w].st = "open"
    /\ upd' = [upd EXCEPT ![w].st = "closed", ![w].buf = <<>>, ![w].how = how,
                           ![w].calls = @ + 1, ![w].commit = commit,
                           ![w].raised = FALSE]
    /\ IF commit THEN replace(w) ELSE AbortKeepsTmp(w)
    /\ UNCHANGED nonAuVars

\* __exit__ after the with body completed: close(commit=True)
AuExitNormal(w) == close(w, TRUE, "committed")

\* __exit__ after the with body raised: close(commit=False)
AuExitRaise(w) == close(w, FALSE, "aborted")

\* the process is killed while the instance is open: nothing is closed, the
\* buffer is lost, the temp file keeps what was flushed
AuKill(w) ==
    /\ upd[w].st = "open"
    /\ upd' = [upd EXCEPT ![w].st = "dead", ![w].buf = <<>>, ![w].how = "killed"]
    /\ UNCHANGED <<target, tmps, nonAuVars>>

\* instances open side by side on one target: __init__ asks for no lock
AuOpen(w, n) ==
    /\ \A v \in Updaters : v < w => upd[v].st # "none"
    /\ AuInit(w, n)

MaxCloses == 3      \* calls of close() on one instance

\* close() without its first two lines: None has no close(), and the
\* AttributeError passes when commit
again_without_guard(commit) == commit

\* whether close() raises on an instance whose _file is None: it returns at once
again(commit) == FALSE

\* close(commit), __exit__ or __del__ on an instance that was closed before
AuCloseAgain(w, commit) ==
    /\ upd[w].st = "closed"
    /\ upd[w].calls < MaxCloses
    /\ upd' = [upd EXCEPT ![w].calls = @ + 1, ![w].commit = commit,
                           ![w].raised = again(commit)]
    /\ UNCHANGED <<target, tmps, nonAuVars>>

\* close(commit) whose file.close() raises (the buffer cannot be written out):
\* self._file is None by then, nothing is renamed, and the exception passes
\* only when commit
AuCloseFails(w, commit) ==
    /\ upd[w].st = "open"
    /\ upd' = [upd EXCEPT ![w].st = "closed", ![w].buf = <<>>,
                           ![w].how = IF commit THEN "failed" ELSE "aborted",
                           ![w].calls = @ + 1, ![w].commit = commit,
                           ![w].raised = commit]
    /\ UNCHANGED <<target, tmps, nonAuVars>>

\* close(commit=True) whose os.replace raises: the temp file is closed and
\* stays, the target is as it was
AuReplaceFails(w) ==
    /\ upd[w].st = "open"
    /\ upd' = [upd EXCEPT ![w].st = "closed", ![w].buf = <<>>, ![w].how = "failed",
                           ![w].calls = @ + 1, ![w].commit = TRUE,
                           ![w].raised = TRUE]
    /\ AbortKeepsTmp(w)
    /\ UNCHANGED nonAuVars

\* no line is being parsed
NotParsing == [kind |-> "idle", exc |-> "", props |-> <<>>]
ParseIdle == pline = <<>> /\ pres = NotParsing

\* no frame is validated, no batch enriched, no month computed, no user
\* agent looked up
LibIdle == val = <<>> /\ enr = <<>> /\ miy = <<>> /\ det = <<>>

\* no file is being updated
AuIdle ==
    /\ target = Absent
    /\ tmps = [n \in TmpNames |-> Absent]
    /\ upd = [w \in Updaters |-> NoUpdater]

(***************************************************************************)
(* label.py and parser.py: parse_line.                                     *)
(*                                                                         *)
(* A line is the record of its pieces, in the order of _LINE_PATTERN.  The *)
(* pieces the claims turn on are sequences of characters (method, status,  *)
(* size, path); the others are samples with the properties the pattern     *)
(* and the conversions look at.  None is Python's None.                    *)
(***************************************************************************)
None == "<None>"

Digits == {"0", "1", "2", "3", "4", "5", "6", "7", "8", "9"}
DigitValue ==
    [c \in Digits |->
        CASE c = "0" -> 0 [] c = "1" -> 1 [] c = "2" -> 2 [] c = "3" -> 3
          [] c = "4" -> 4 [] c = "5" -> 5 [] c = "6" -> 6 [] c = "7" -> 7
          [] c = "8" -> 8 [] c = "9" -> 9]
UpperCase == {"A", "C", "D", "E", "F", "G", "H", "I", "L", "N", "O", "P", "R",
              "S", "T", "U"}
LowerCase == {"e", "g", "o", "p", "s", "t"}
AllDigits(t) == \A i \in 1..Len(t) : t[i] \in Digits
AllLetters(t) == \A i \in 1..Len(t) : t[i] \in UpperCase \cup LowerCase

\* int(text) of a string of digits
RECURSIVE int(_)
int(t) == IF t = <<>> THEN 0 ELSE 10 * int(SubSeq(t, 1, Len(t) - 1)) + DigitValue[t[Len(t)]]

\* str.upper(), on the letters of the samples
upper(t) ==
    [i \in 1..Len(t) |->
        CASE t[i] = "e" -> "E" [] t[i] = "g" -> "G" [] t[i] = "o" -> "O"
          [] t[i] = "p" -> "P" [] t[i] = "s" -> "S" [] t[i] = "t" -> "T"
          [] OTHER -> t[i]]

\* label.py: the names of HttpMethod, the values of HttpProtocol
HttpMethod ==
    { <<"C","O","N","N","E","C","T">>, <<"D","E","L","E","T","E">>, <<"G","E","T">>,
      <<"H","E","A","D">>, <<"O","P","T","I","O","N","S">>, <<"P","A","T","C","H">>,
      <<"P","O","S","T">>, <<"P","U","T">>, <<"T","R","A","C","E">> }
HttpProtocol == {"0.9", "1.0", "1.1", "2.0", "3.0"}

\* HttpStatus.of: the class of a status, "ValueError" when it has none
HttpStatusOf(status) ==
    IF 200 <= status /\ status < 300 THEN "SUCCESSFUL"
    ELSE IF 300 <= status /\ status < 400 THEN "REDIRECTION"
    ELSE IF 400 <= status /\ status < 500 THEN "CLIENT_ERROR"
    ELSE IF 500 <= status /\ status < 600 THEN "SERVER_ERROR"
    ELSE "ValueError"

\* calendar: the days of a month, as datetime.strptime checks %d against them
IsLeap(y) == (y % 4 = 0 /\ y % 100 # 0) \/ y % 400 = 0
DaysInMonth(y, m) ==
    IF m = 2 THEN (IF IsLeap(y) THEN 29 ELSE 28)
    ELSE IF m \in {4, 6, 9, 11} THEN 30 ELSE 31

\* the text between the brackets: whether it has the layout of
\* "%d/%b/%Y:%H:%M:%S %z", and the numbers it then carries
NoTimestamp == [text |-> "", layout |-> FALSE, day |-> 0, month |-> 0, year |-> 0, hour |-> 0]
Timestamps ==
    { [text |-> "13/Aug/2022:01:02:03 +0000", layout |-> TRUE,
       day |-> 13, month |-> 8, year |-> 2022, hour |-> 1],
      [text |-> "29/Feb/2020:23:02:03 -0500", layout |-> TRUE,
       day |-> 29, month |-> 2, year |-> 2020, hour |-> 23],
      [text |-> "31/Feb/2022:01:02:03 +0000", layout |-> TRUE,
       day |-> 31, month |-> 2, year |-> 2022, hour |-> 1],
      [text |-> "13/Aug/2022:24:02:03 +0000", layout |-> TRUE,
       day |-> 13, month |-> 8, year |-> 2022, hour |-> 24],
      [text |-> "yesterday", layout |-> FALSE,
       day |-> 0, month |-> 0, year |-> 0, hour |-> 0],
      NoTimestamp }

\* parse_timestamp: datetime.strptime accepts the text (else ValueError)
parse_timestamp_ok(ts) ==
    /\ ts.layout
    /\ ts.month \in 1..12
    /\ ts.day \in 1..DaysInMonth(ts.year, ts.month)
    /\ ts.hour \in 0..23

\* the quoted strings: whether the piece is there, whether it is a
\* _DOUBLE_QUOTED_STRING, and the text between the quotes; url tells how
\* _REFERRER splits the text ("" when it does not match)
Quoted(text, scheme, host, path) ==
    [present |-> TRUE, quoted |-> TRUE, text |-> text,
     scheme |-> scheme, host |-> host, path |-> path]
Missing ==
    [present |-> FALSE, quoted |-> FALSE, text |-> "", scheme |-> "", host |-> "", path |-> ""]
BareDash ==
    [present |-> TRUE, quoted |-> FALSE, text |-> "-", scheme |-> "", host |-> "", path |-> ""]
Referrers ==
    { Quoted("-", "", "", ""),
      Quoted("https://Example.com/some/path", "https", "Example.com", "/some/path"),
      Quoted("HTTP://example.com", "", "", ""),
      Quoted("android-app://com.app", "", "", ""),
      BareDash, Missing }
UserAgents == { Quoted("-", "", "", ""), Quoted("bot", "", "", ""), Missing }

\* unquote
unquote(q) == IF q.text = "-" THEN None ELSE q.text

\* str.lower() of the sample hosts
lower(h) == IF h = "Example.com" THEN "example.com" ELSE IF h = "S.com" THEN "s.com" ELSE h

\* parse_referrer: (scheme, host, path) of the referrer, all None when the
\* referrer is None or _REFERRER does not match it
parse_referrer(q) ==
    IF unquote(q) = None \/ q.scheme = ""
    THEN [scheme |-> None, host |-> None, path |-> None]
    ELSE [scheme |-> q.scheme, host |-> lower(q.host), path |-> q.path]

\* the optional trailing pair: server name and server address
NoServer == [present |-> FALSE, name |-> "", address |-> ""]
Servers == { NoServer, [present |-> TRUE, name |-> "S.com", address |-> "2.2.2.2"] }

\* the samples of the other pieces
Addresses == {"1.1.1.1", "2a06:98c0:3600::103"}
IPv4 == {"1.1.1.1", "2.2.2.2"}
Methods == { <<"G","E","T">>, <<"g","e","t">>, <<"P","o","s","t">>, <<"F","O","O">>,
             <<"G","3","T">> }
Paths == { <<>>, <<"/">>, <<"/","a","/">> }
Protocols == {"2.0", "1.1", "1.2"}
Statuses == { <<"2","0","0">>, <<"4","0","4">>, <<"5","9","9">>, <<"1","9","9">>,
              <<"6","0","0">>, <<"0","0","0">>, <<"2","0">> }
Sizes == { <<"-">>, <<"6","6","5">> }

Lines ==
    [client_address : Addresses, timestamp : Timestamps, method : Methods,
     path : Paths, protocol : Protocols, status : Statuses, size : Sizes,
     referrer : Referrers, user_agent : UserAgents, server : Servers]

\* _LINE_PATTERN.match(line): every piece has the form of its group; the
\* referrer and the user agent are not optional, the server pair is
LinePatternMatches(line) ==
    /\ line.client_address \in IPv4
    /\ line.timestamp.text # ""
    /\ line.method # <<>> /\ AllLetters(line.method)
    /\ line.protocol \in HttpProtocol
    /\ Len(line.status) = 3 /\ AllDigits(line.status)
    /\ (line.size = <<"-">> \/ (line.size # <<>> /\ AllDigits(line.size)))
    /\ line.referrer.present /\ line.referrer.quoted
    /\ line.user_agent.present /\ line.user_agent.quoted
    /\ line.server.present => line.server.address \in IPv4

\* parse_size
parse_size(t) == IF t # <<"-">> THEN int(t) ELSE 0

\* normalize_path
normalize_path(path) == IF path # <<>> THEN path ELSE <<"/">>

\* the results of parse_line: None, a dict, or an exception leaving the call
Pending == [kind |-> "pending", exc |-> "", props |-> <<>>]
ReturnsNone == [kind |-> "None", exc |-> "", props |-> <<>>]
Raises(exc) == [kind |-> "raise", exc |-> exc, props |-> <<>>]
ReturnsDict(props) == [kind |-> "dict", exc |-> "", props |-> props]

\* the dict parse_line builds once no conversion has raised
Props(line) ==
    LET ref == parse_referrer(line.referrer) IN
    [client_address |-> line.client_address,
     method |-> upper(line.method),
     protocol |-> line.protocol,
     size |-> parse_size(line.size),
     timestamp |-> line.timestamp.text,
     user_agent |-> unquote(line.user_agent),
     path |-> normalize_path(line.path),
     referrer |-> unquote(line.referrer),
     referrer_scheme |-> ref.scheme,
     referrer_host |-> ref.host,
     referrer_path |-> ref.path,
     status |-> int(line.status),
     status_class |-> HttpStatusOf(int(line.status)),
     server_name |-> IF line.server.present THEN lower(line.server.name) ELSE None,
     server_address |-> IF line.server.present THEN line.server.address ELSE None]

\* parse_line, its conversions in the order of the code: HttpMethod[...] raises
\* KeyError, parse_timestamp and HttpStatus.of raise ValueError
parse_line(line) ==
    IF ~LinePatternMatches(line) THEN ReturnsNone
    ELSE IF upper(line.method) \notin HttpMethod THEN Raises("KeyError")
    ELSE IF ~parse_timestamp_ok(line.timestamp) THEN Raises("ValueError")
    ELSE IF HttpStatusOf(int(line.status)) = "ValueError" THEN Raises("ValueError")
    ELSE ReturnsDict(Props(line))

\* one call of parse_line
ParseLine ==
    /\ pres.kind = "pending"
    /\ pres' = parse_line(pline)
    /\ UNCHANGED <<pline, auVars, pipeVars, libVars>>

(***************************************************************************)
(* schema.py and data_manager.py: the frames.                              *)
(*                                                                         *)
(* A frame is the dtype of each of its columns and its rows; a row is the  *)
(* month and the line it comes from and the set of its columns that are    *)
(* null.                                                                   *)
(***************************************************************************)
\* schema.py: the keys of SCHEMA
SCHEMA_KEYS ==
    { "client_address", "timestamp", "method", "path", "query", "fragment",
      "protocol", "status", "size", "referrer", "user_agent", "server_name",
      "server_address",
      "content_type", "cool_path", "referrer_scheme", "referrer_host",
      "referrer_path", "referrer_query", "referrer_fragment", "status_class",
      "client_name",
      "client_latitude", "client_longitude", "client_city", "client_country",
      "agent_family", "agent_version", "os_family", "os_version",
      "device_family", "device_brand", "device_model", "is_bot",
      "bot_category", "is_bot2" }

\* the dtype both schemas give a column
Dtype(c) ==
    CASE c = "timestamp" -> "datetime64[ns, UTC]"
      [] c = "method" -> "category(HttpMethod)"
      [] c = "protocol" -> "category(HttpProtocol, ordered)"
      [] c = "status" -> "int16"
      [] c = "size" -> "int32"
      [] c = "content_type" -> "category(ContentType)"
      [] c = "referrer_scheme" -> "category(HttpScheme)"
      [] c = "status_class" -> "category(HttpStatus, ordered)"
      [] c \in {"client_latitude", "client_longitude"} -> "float64"
      [] c \in {"is_bot", "is_bot2"} -> "bool"
      [] c = "bot_category" -> "category(BotCategory)"
      [] OTHER -> "string"
Categorical ==
    { "category(HttpMethod)", "category(HttpProtocol, ordered)",
      "category(ContentType)", "category(HttpScheme)",
      "category(HttpStatus, ordered)", "category(BotCategory)" }

SCHEMA == [c \in SCHEMA_KEYS |-> Dtype(c)]

\* data_manager.py: the keys of LOG_SCHEMA
LOG_SCHEMA_KEYS ==
    { "client_address", "timestamp", "method", "path", "query", "protocol",
      "status", "size", "referrer", "user_agent", "server_name", "server_address",
      "content_type", "cool_path", "referrer_scheme", "referrer_host",
      "referrer_path", "status_class",
      "client_name", "client_latitude", "client_longitude", "client_city",
      "client_country", "agent_family", "agent_version", "os_family",
      "os_version", "device_family", "device_brand", "device_model", "is_bot" }

LOG_SCHEMA == [c \in LOG_SCHEMA_KEYS |-> Dtype(c)]

\* schema.py
NON_NULL_COLUMNS ==
    << "client_address", "timestamp", "method", "path", "protocol", "status",
       "size", "content_type", "cool_path", "status_class", "is_bot",
       "bot_category", "is_bot2" >>

NullConstraint(equal, at_least) == [equal |-> equal, at_least |-> at_least]

NULL_CONSTRAINTS ==
    << NullConstraint(<<"server_name", "server_address">>, <<>>),
       NullConstraint(<<"referrer_scheme", "referrer_host">>,
                      <<"referrer_path", "referrer_query", "referrer_fragment">>),
       NullConstraint(<<"client_latitude", "client_longitude">>, <<>>),
       NullConstraint(<<"agent_family", "agent_version", "os_family", "os_version",
                        "device_family", "device_brand", "device_model">>, <<>>) >>

NoFrame == [dtypes |-> <<>>, rows |-> <<>>]
Columns(df) == DOMAIN df.dtypes
notnull(df, column, r) == column \notin df.rows[r].nulls
Range(f) == {f[i] : i \in DOMAIN f}

\* the outcome of validate and of apply_to: nothing raised, or the
\* ValidationError of a check with what its message names
Accepted == [check |-> "ok", what |-> <<>>]
ValidationError(check, what) == [check |-> check, what |-> what]

\* where a loop that raises at its first hit stops
LeastIsGreatest(S) == CHOOSE i \in S : \A j \in S : i >= j

Least(S) == CHOOSE i \in S : \A j \in S : i <= j

\* NullConstraint.apply_to without its second loop
apply_to_equal_only(constraint, df) ==
    LET column1 == constraint.equal[1]
        rows == 1..Len(df.rows)
        mixed == {k \in 2..Len(constraint.equal) :
                    \E r \in rows : notnull(df, constraint.equal[k], r)
                                        # notnull(df, column1, r)}
    IN  IF mixed # {}
        THEN ValidationError("mix", <<column1, constraint.equal[Least(mixed)]>>)
        ELSE Accepted

\* NullConstraint.apply_to: the first column of equal[1:] that mixes null and
\* non-null with equal[0] in some row, else the first column of at_least
\* that is non-null in a row where equal[0] is null
apply_to(constraint, df) ==
    LET column1 == constraint.equal[1]
        rows == 1..Len(df.rows)
        mixed == {k \in 2..Len(constraint.equal) :
                    \E r \in rows : notnull(df, constraint.equal[k], r)
                                        # notnull(df, column1, r)}
        more == {k \in 1..Len(constraint.at_least) :
                    \E r \in rows :
                        (notnull(df, constraint.at_least[k], r) \/ notnull(df, column1, r))
                            # notnull(df, column1, r)}
    IN  IF mixed # {}
        THEN ValidationError("mix", <<column1, constraint.equal[Least(mixed)]>>)
        ELSE IF more # {}
        THEN ValidationError("at_least", <<constraint.at_least[Least(more)], column1>>)
        ELSE Accepted

\* schema.py validate: the ValidationError of the first check that fails
validate(df) ==
    LET rows == 1..Len(df.rows)
        maltyped == {column \in DOMAIN SCHEMA : df.dtypes[column] # SCHEMA[column]}
        nulls == {k \in 1..Len(NON_NULL_COLUMNS) :
                    \E r \in rows : ~notnull(df, NON_NULL_COLUMNS[k], r)}
        broken == {k \in 1..Len(NULL_CONSTRAINTS) :
                    apply_to(NULL_CONSTRAINTS[k], df) # Accepted}
    IN  IF Columns(df) # DOMAIN SCHEMA
        THEN ValidationError("columns", <<DOMAIN SCHEMA \ Columns(df),
                                          Columns(df) \ DOMAIN SCHEMA>>)
        ELSE IF maltyped # {} THEN ValidationError("maltyped", maltyped)
        ELSE IF nulls # {}
        THEN ValidationError("nulls",
                 <<NON_NULL_COLUMNS[Least(nulls)],
                   Cardinality({r \in rows :
                                  ~notnull(df, NON_NULL_COLUMNS[Least(nulls)], r)})>>)
        ELSE IF broken # {} THEN apply_to(NULL_CONSTRAINTS[Least(broken)], df)
        ELSE Accepted

\* DataManager.validate_log_data: none of its assertions fails
validate_log_data(df) ==
    /\ Cardinality(Columns(df)) = Cardinality(DOMAIN LOG_SCHEMA)
    /\ \A column \in DOMAIN LOG_SCHEMA :
          column \in Columns(df) /\ df.dtypes[column] # "object"
    /\ \A column \in {"content_type", "method", "protocol", "referrer_scheme",
                      "status_class"} :
          df.dtypes[column] \in Categorical

\* the dtype pandas gives a column that astype leaves alone
Inferred(column) == IF column = "is_bot2" THEN "bool" ELSE "object"

\* to_log_frame: astype(LOG_SCHEMA) casts the columns LOG_SCHEMA names and
\* keeps the others
to_log_frame(columns, rows) ==
    [dtypes |-> [c \in columns |->
                    IF c \in DOMAIN LOG_SCHEMA THEN LOG_SCHEMA[c] ELSE Inferred(c)],
     rows |-> rows]

\* pd.concat of two frames: the union of the columns; a column keeps its dtype
\* where both frames agree on it and becomes object elsewhere
concat2(a, b) ==
    IF a = NoFrame THEN b
    ELSE [dtypes |-> [c \in Columns(a) \cup Columns(b) |->
                        IF c \in Columns(a) /\ c \in Columns(b)
                             /\ a.dtypes[c] = b.dtypes[c]
                        THEN a.dtypes[c] ELSE "object"],
          rows |-> a.rows \o b.rows]

RECURSIVE concat(_)
concat(frames) ==
    IF frames = <<>> THEN NoFrame
    ELSE concat2(concat(SubSeq(frames, 1, Len(frames) - 1)), frames[Len(frames)])

(***************************************************************************)
(* parser.py: parse_all_lines and enrich, as ingest_access_log uses them.  *)
(***************************************************************************)
\* the index of the first line parse_line makes no dict of, 0 if there is none
FirstBad(lines) ==
    LET bad == {i \in 1..Len(lines) : parse_line(lines[i]).kind # "dict"} IN
    IF bad = {} THEN 0 ELSE CHOOSE i \in bad : \A j \in bad : i <= j

\* parse_all_lines: the dicts of all lines, or ParseError with the 1-based
\* number of the first line parse_line returned None for, or the exception
\* parse_line raised
parse_all_lines(lines) ==
    LET i == FirstBad(lines) IN
    IF i = 0
    THEN [kind |-> "ok", line |-> 0,
          entries |-> [k \in 1..Len(lines) |-> parse_line(lines[k]).props]]
    ELSE IF parse_line(lines[i]).kind = "None"
    THEN [kind |-> "ParseError", line |-> i, entries |-> <<>>]
    ELSE [kind |-> parse_line(lines[i]).exc, line |-> 0, entries |-> <<>>]

\* the columns of a log entry that hold None (the sample paths and referrers
\* carry neither query nor fragment)
EntryNulls(props) ==
    {"query", "fragment", "referrer_query", "referrer_fragment"}
    \cup {c \in {"user_agent", "referrer", "referrer_scheme", "referrer_host",
                 "referrer_path", "server_name", "server_address"} : props[c] = None}

\* enrich_client_name: the hostname column is null where the map holds None
ClientNameNulls(hostname) == IF hostname = None THEN {"client_name"} ELSE {}

\* the addresses the city database knows
Located == {"1.1.1.1"}

\* enrich_client_location: NaN and None where the address is not found
ClientLocationNulls(props) ==
    IF props.client_address \in Located THEN {}
    ELSE {"client_latitude", "client_longitude", "client_city", "client_country"}

\* enrich_user_agent: None for all parts of an absent user agent
UserAgentNulls(props) ==
    IF props.user_agent = None
    THEN {"agent_family", "agent_version", "os_family", "os_version",
          "device_family", "device_brand", "device_model"}
    ELSE {}

\* the columns of log_data after parse_all_lines and enrich
EnrichedColumns == SCHEMA_KEYS

Row(month, index, nulls) == [month |-> month, index |-> index, nulls |-> nulls]

\* ingest_access_log: the frame of a month's log whose lines all parse
ingest_access_log(month, entries, hostname) ==
    to_log_frame(EnrichedColumns,
        [k \in 1..Len(entries) |->
            Row(month, k, EntryNulls(entries[k]) \cup ClientNameNulls(hostname)
                              \cup ClientLocationNulls(entries[k])
                              \cup UserAgentNulls(entries[k]))])

(***************************************************************************)
(* data_manager.py: the data root, Coverage and the DataManager.           *)
(*                                                                         *)
(* Months are numbered in calendar order from January 2020.  A file is     *)
(* readable when it was closed as a Parquet file, and complete when the    *)
(* write that made it ran to its end.                                      *)
(***************************************************************************)
MaxMonth == 3       \* months a data root can hold
MaxLines == 2       \* lines of a raw log
MaxLog == 3         \* lines of a raw log whose lines are drawn freely

Months == 1..MaxMonth
Ranges == {r \in Months \X Months : r[1] <= r[2]}
NoRange == <<0, 0>>

\* the domain the names of the files of a data root begin with
TheDomain == "example.com"
OtherDomain == "example.org"

NoFile ==
    [exists |-> FALSE, readable |-> FALSE, complete |-> FALSE, frame |-> NoFrame,
     domain |-> None]
Written(df) ==
    [exists |-> TRUE, readable |-> TRUE, complete |-> TRUE, frame |-> df,
     domain |-> TheDomain]
\* a file whose write has begun: Parquet's footer is not there yet
Begun(df) ==
    [exists |-> TRUE, readable |-> FALSE, complete |-> FALSE, frame |-> df,
     domain |-> TheDomain]
\* a file whose writer was closed before all of it was written
CutShort(df) ==
    [exists |-> TRUE, readable |-> TRUE, complete |-> FALSE, frame |-> df,
     domain |-> TheDomain]
\* the file under the name that begins with the given domain
InDomain(file, domain) == [file EXCEPT !.domain = domain]

NoRaw == [exists |-> FALSE, lines |-> <<>>, domain |-> None]
GoodLine ==
    [client_address |-> "1.1.1.1",
     timestamp |-> [text |-> "13/Aug/2022:01:02:03 +0000", layout |-> TRUE,
                    day |-> 13, month |-> 8, year |-> 2022, hour |-> 1],
     method |-> <<"G","E","T">>, path |-> <<"/">>, protocol |-> "2.0",
     status |-> <<"2","0","0">>, size |-> <<"-">>,
     referrer |-> Quoted("https://Example.com/some/path", "https", "Example.com",
                         "/some/path"),
     user_agent |-> Quoted("bot", "", "", ""),
     server |-> [present |-> TRUE, name |-> "S.com", address |-> "2.2.2.2"]]
\* the logs of successive months differ in length: 1, 2, .., MaxLines, 1, ..
LineCount(month) == ((month - 1) % MaxLines) + 1
RawLog(month) ==
    [exists |-> TRUE, lines |-> [k \in 1..LineCount(month) |-> GoodLine],
     domain |-> TheDomain]

\* lines ingestion stops at: the line of an IPv6 client, which _LINE_PATTERN
\* does not match, and lines it matches with a status HttpStatus.of rejects
\* and with a method HttpMethod has no member for
NoMatchLine == [GoodLine EXCEPT !.client_address = "2a06:98c0:3600::103"]
BadStatusLine == [GoodLine EXCEPT !.status = <<"6","0","0">>]
BadMethodLine == [GoodLine EXCEPT !.method = <<"F","O","O">>]
SampleLines == {GoodLine, NoMatchLine, BadStatusLine, BadMethodLine}

\* the raw logs of up to MaxLog sample lines, of either domain
SampleLogs ==
    {[exists |-> TRUE, lines |-> lines, domain |-> domain] :
        lines \in UNION {[1..n -> SampleLines] : n \in 1..MaxLog},
        domain \in {TheDomain, OtherDomain}}

\* a monthly file an earlier ingestion of the month's log left: its frame has
\* the columns of LOG_SCHEMA, the only frames validate_log_data accepts
FoundFrame(month) ==
    [dtypes |-> LOG_SCHEMA,
     rows |-> [k \in 1..LineCount(month) |-> Row(month, k, {"query"})]]
FoundFile(month) == Written(FoundFrame(month))

\* sorted(...): the months of a set in ascending order
RECURSIVE sorted(_)
sorted(S) ==
    IF S = {} THEN <<>>
    ELSE LET m == CHOOSE x \in S : \A y \in S : x <= y IN <<m>> \o sorted(S \ {m})

\* MonthInYear.days
days(month) == DaysInMonth(2020, month)

RECURSIVE SumDays(_)
SumDays(S) == IF S = {} THEN 0 ELSE LET m == CHOOSE x \in S : TRUE IN days(m) + SumDays(S \ {m})

RECURSIVE SumRequests(_)
SumRequests(f) ==
    IF DOMAIN f = {} THEN 0
    ELSE LET m == CHOOSE x \in DOMAIN f : TRUE IN
         f[m] + SumRequests([k \in DOMAIN f \ {m} |-> f[k]])

\* Coverage.__init__, given the sorted months of the monthly files
NoCoverage ==
    [begin |-> 0, end |-> 0, logs |-> <<>>, requests |-> <<>>, total |-> 0,
     days |-> 0, months |-> 0, domain |-> None]
\* a check that takes all monthly files for files of one domain
SeveralDomainsNever(logs) == FALSE

\* Coverage.__init__: the StorageError for monthly files of several domains
SeveralDomains(logs) ==
    \E k \in 1..Len(logs) : monthly[logs[k]].domain # monthly[logs[1]].domain
\* a Coverage whose range ends at its first monthly file
CoverageOfFirst(logs) ==
    [begin |-> logs[1], end |-> logs[1], logs |-> logs, requests |-> <<>>,
     total |-> 0, days |-> 0, months |-> 0, domain |-> monthly[logs[1]].domain]

Coverage(logs) ==
    [begin |-> logs[1], end |-> logs[Len(logs)], logs |-> logs, requests |-> <<>>,
     total |-> 0, days |-> 0, months |-> 0, domain |-> monthly[logs[1]].domain]

\* assertions that let every month pass
register_any(cov, month) == TRUE

\* Coverage.register_log_data: its assertions, and the coverage after it
register_ok(cov, month) ==
    cov.begin <= month /\ month <= cov.end /\ month \notin DOMAIN cov.requests
register_log_data(cov, month, df) ==
    [cov EXCEPT !.days = @ + days(month), !.months = @ + 1,
                !.requests = (month :> Len(df.rows)) @@ @,
                !.total = @ + Len(df.rows)]

\* Coverage.summary: the months it counts, its assertions, and its result
Counted(cov) == {cov.begin} \cup {m \in (cov.begin + 1)..cov.end : m \in DOMAIN cov.requests}
summary_ok(cov) ==
    /\ SumDays(Counted(cov)) = cov.days
    /\ Cardinality(Counted(cov)) = cov.months
    /\ Cardinality(Counted(cov)) = Cardinality(DOMAIN cov.requests)
\* a join that is never null
JoinedNeverNull(missing) == [null |-> FALSE, months |-> sorted(missing)]

\* ", ".join(missing) if missing else None: the missing months in ascending
\* order, or null
Joined(missing) ==
    IF missing = {} THEN [null |-> TRUE, months |-> <<>>]
    ELSE [null |-> FALSE, months |-> sorted(missing)]
summary(cov) ==
    [requests |-> cov.total, days |-> cov.days, months |-> cov.months,
     begin |-> cov.begin, end |-> cov.end,
     missing |-> Joined({m \in (cov.begin + 1)..cov.end : m \notin DOMAIN cov.requests})]

NoCoverageFile == [exists |-> FALSE, requests |-> <<>>, summary |-> summary(NoCoverage)]
\* Coverage.save: the JSON file, written through atomic_update
save(cov) == [exists |-> TRUE, requests |-> cov.requests, summary |-> summary(cov)]

\* the fields of a new DataManager and the locals of a method not yet running
NewManager(incremental) ==
    [incremental |-> incremental, did_ingest_access_log |-> "None",
     log_data |-> NoFrame, log_data_path |-> NoRange, coverage |-> NoCoverage,
     domain |-> None]
NoLocals == [queue |-> <<>>, did_ingest_access_log |-> FALSE, it |-> <<>>]

Running == {"ingest", "to_parquet", "combine", "combine_write", "full_write",
            "incremental_write", "save", "validate"}

\* a run ends without a result: the process and its DataManager are gone
Ended(how) ==
    /\ pc' = how
    /\ mgr' = NewManager(FALSE)
    /\ loop' = NoLocals

\* the raw log of the next month appears in access-logs/, between two runs:
\* logs arrive in month order, for months not ingested before
AddRawLog(month) ==
    /\ pc \in {"idle", "failed", "interrupted"}
    /\ ~raw[month].exists /\ ~monthly[month].exists
    /\ \A m \in 1..(month - 1) : raw[m].exists \/ monthly[m].exists
    /\ raw' = [raw EXCEPT ![month] = RawLog(month)]
    /\ last' = NoFrame
    /\ UNCHANGED <<monthly, masters, covfiles, hostdb, runVars, auVars, parseVars, libVars>>

\* latest_log_data: a new DataManager, prepare_log_data, and the head of
\* ingest_all_access_logs, which sorts the raw logs by month
StartRun(incremental) ==
    /\ pc \notin Running
    /\ pc' = "ingest"
    /\ mgr' = NewManager(incremental)
    /\ loop' = [NoLocals EXCEPT !.queue = sorted({m \in Months : raw[m].exists})]
    /\ UNCHANGED <<diskVars, auVars, parseVars, libVars, last>>

\* _parse_access_log_name accepts the log: it is the first one of the run, or
\* of the domain of the logs before it
SameDomain(month) == mgr.domain \in {None, raw[month].domain}

\* an existence test that finds no monthly file
TargetNeverExists(month) == FALSE

\* the monthly file of a raw log: <domain>-<yyyy>-<mm>.parquet.  enriched-logs/
\* is modelled with one file per month; a file of another domain for the
\* month of a raw log is not among the states of the model
TargetExists(month) ==
    monthly[month].exists /\ monthly[month].domain = raw[month].domain

\* ingest_all_access_logs: _parse_access_log_name raises StorageError for a
\* log of another domain than the logs before it in month order
IngestOtherDomain ==
    /\ pc = "ingest" /\ loop.queue # <<>>
    /\ ~SameDomain(Head(loop.queue))
    /\ Ended("failed")
    /\ UNCHANGED <<diskVars, auVars, parseVars, libVars, last>>

\* ingest_all_access_logs: target_path.exists(), continue
IngestSkip ==
    /\ pc = "ingest" /\ loop.queue # <<>>
    /\ SameDomain(Head(loop.queue))
    /\ TargetExists(Head(loop.queue))
    /\ loop' = [loop EXCEPT !.queue = Tail(@)]
    /\ mgr' = [mgr EXCEPT !.domain = raw[Head(loop.queue)].domain]
    /\ UNCHANGED <<pc, diskVars, auVars, parseVars, libVars, last>>

\* ingest_all_access_logs: ingest_access_log parses and enriches the log
\* (the hostname map is saved), then df.to_parquet begins to write
IngestAccessLog(answer) ==
    /\ pc = "ingest" /\ loop.queue # <<>>
    /\ LET month == Head(loop.queue)
           parsed == parse_all_lines(raw[month].lines)
           hostname == IF hostdb = "miss" THEN answer ELSE hostdb
       IN  /\ SameDomain(month)
           /\ ~TargetExists(month)
           /\ IF parsed.kind # "ok"
              THEN Ended("failed") /\ UNCHANGED <<monthly, hostdb>>
              ELSE /\ hostdb' = hostname
                   /\ monthly' = [monthly EXCEPT ![month] =
                         InDomain(Begun(ingest_access_log(month, parsed.entries,
                                                          hostname)),
                                  raw[month].domain)]
                   /\ pc' = "to_parquet"
                   /\ mgr' = [mgr EXCEPT !.domain = raw[month].domain]
                   /\ UNCHANGED loop
    /\ UNCHANGED <<raw, masters, covfiles, auVars, parseVars, libVars, last>>

\* ingest_all_access_logs: df.to_parquet returns, did_ingest_access_log = True
IngestWritten ==
    /\ pc = "to_parquet"
    /\ monthly' = [monthly EXCEPT ![Head(loop.queue)] =
                       InDomain(Written(@.frame), @.domain)]
    /\ loop' = [loop EXCEPT !.queue = Tail(@), !.did_ingest_access_log = TRUE]
    /\ pc' = "ingest"
    /\ UNCHANGED <<mgr, raw, masters, covfiles, hostdb, auVars, parseVars, libVars, last>>

\* a flag that is set whether or not a log was ingested
DidIngestAlways(flag) == "True"

\* self._did_ingest_access_log = did_ingest_access_log
DidIngest(flag) == IF flag THEN "True" ELSE "False"

\* ingest_all_access_logs: the loop is over
IngestDone ==
    /\ pc = "ingest" /\ loop.queue = <<>>
    /\ mgr' = [mgr EXCEPT !.did_ingest_access_log = DidIngest(loop.did_ingest_access_log)]
    /\ pc' = "combine"
    /\ UNCHANGED <<loop, diskVars, auVars, parseVars, libVars, last>>

\* the ranges whose files glob(name_with_suffix(".*")) finds
Globbed(cov) == {r \in Ranges : r = <<cov.begin, cov.end>>}

\* combine_monthly_logs: a new Coverage of enriched-logs/, the unlinking
\* after an ingestion, and the path of the master file
CombineStart ==
    /\ pc = "combine"
    /\ LET logs == sorted({m \in Months : monthly[m].exists}) IN
       IF logs = <<>> \/ SeveralDomains(logs)
       THEN Ended("failed") /\ UNCHANGED <<masters, covfiles>>
       ELSE LET cov == Coverage(logs) IN
            /\ IF mgr.did_ingest_access_log = "True"
               THEN /\ masters' = [r \in Ranges |->
                          IF r \in Globbed(cov) THEN NoFile ELSE masters[r]]
                    /\ covfiles' = [r \in Ranges |->
                          IF r \in Globbed(cov) THEN NoCoverageFile ELSE covfiles[r]]
               ELSE UNCHANGED <<masters, covfiles>>
            /\ mgr' = [mgr EXCEPT !.coverage = cov, !.did_ingest_access_log = "False",
                                  !.log_data_path = <<cov.begin, cov.end>>]
            /\ pc' = "combine_write"
            /\ UNCHANGED loop
    /\ UNCHANGED <<raw, monthly, hostdb, auVars, parseVars, libVars, last>>

\* combine_monthly_logs: target_path exists and is read
LoadExisting ==
    /\ pc = "combine_write"
    /\ masters[mgr.log_data_path].exists
    /\ IF masters[mgr.log_data_path].readable
       THEN /\ mgr' = [mgr EXCEPT !.log_data = masters[mgr.log_data_path].frame]
            /\ pc' = "validate"
            /\ UNCHANGED loop
       ELSE Ended("failed")
    /\ UNCHANGED <<diskVars, auVars, parseVars, libVars, last>>

\* the coverage after register_log_data of the first k monthly files
RECURSIVE RegisterAll(_, _)
RegisterAll(cov, k) ==
    IF k = 0 THEN cov
    ELSE register_log_data(RegisterAll(cov, k - 1), cov.logs[k], monthly[cov.logs[k]].frame)

\* _combine_and_write: the monthly frames are read, registered and
\* concatenated, and to_parquet begins to write the master file
CombineAndWrite ==
    /\ pc = "combine_write"
    /\ ~masters[mgr.log_data_path].exists
    /\ ~mgr.incremental
    /\ LET cov == mgr.coverage
           frames == [k \in 1..Len(cov.logs) |-> monthly[cov.logs[k]].frame]
       IN  IF \E k \in 1..Len(cov.logs) : ~monthly[cov.logs[k]].readable
           THEN Ended("failed") /\ UNCHANGED masters
           ELSE /\ mgr' = [mgr EXCEPT !.coverage = RegisterAll(cov, Len(cov.logs)),
                                      !.log_data = concat(frames)]
                /\ masters' = [masters EXCEPT ![mgr.log_data_path] =
                                  InDomain(Begun(concat(frames)), cov.domain)]
                /\ pc' = "full_write"
                /\ UNCHANGED loop
    /\ UNCHANGED <<raw, monthly, covfiles, hostdb, auVars, parseVars, libVars, last>>

\* _combine_and_write: to_parquet returns
FullWritten ==
    /\ pc = "full_write"
    /\ masters' = [masters EXCEPT ![mgr.log_data_path] =
                       InDomain(Written(@.frame), @.domain)]
    /\ pc' = "save"
    /\ UNCHANGED <<mgr, loop, raw, monthly, covfiles, hostdb, auVars, parseVars, libVars, last>>

\* _write_incrementally: the first monthly file is read and registered, the
\* ParquetWriter creates the master file and writes the first table
WriteIncrementally ==
    /\ pc = "combine_write"
    /\ ~masters[mgr.log_data_path].exists
    /\ mgr.incremental
    /\ LET first == mgr.coverage.logs[1] IN
       IF ~monthly[first].readable
       THEN Ended("failed") /\ UNCHANGED masters
       ELSE /\ mgr' = [mgr EXCEPT !.coverage =
                          register_log_data(@, first, monthly[first].frame)]
            /\ masters' = [masters EXCEPT ![mgr.log_data_path] =
                              InDomain(Begun(monthly[first].frame),
                                       mgr.coverage.domain)]
            /\ loop' = [loop EXCEPT !.it = Tail(mgr.coverage.logs)]
            /\ pc' = "incremental_write"
    /\ UNCHANGED <<raw, monthly, covfiles, hostdb, auVars, parseVars, libVars, last>>

\* _write_incrementally: the next monthly file is read, registered and
\* written as one more row group; when read_parquet raises, or write_table
\* does for a table of another schema, the with statement closes the writer
WriteNextTable ==
    /\ pc = "incremental_write" /\ loop.it # <<>>
    /\ LET month == Head(loop.it)
           path == mgr.log_data_path
       IN  IF \/ ~monthly[month].readable
              \/ monthly[month].frame.dtypes # masters[path].frame.dtypes
           THEN /\ masters' = [masters EXCEPT ![path] = InDomain(CutShort(@.frame), @.domain)]
                /\ Ended("failed")
           ELSE /\ masters' = [masters EXCEPT ![path] =
                                  InDomain(Begun(concat2(@.frame, monthly[month].frame)),
                                           @.domain)]
                /\ mgr' = [mgr EXCEPT !.coverage =
                              register_log_data(@, month, monthly[month].frame)]
                /\ loop' = [loop EXCEPT !.it = Tail(@)]
                /\ UNCHANGED pc
    /\ UNCHANGED <<raw, monthly, covfiles, hostdb, auVars, parseVars, libVars, last>>

\* _write_incrementally: the with statement ends and closes the writer
WriterClosed ==
    /\ pc = "incremental_write" /\ loop.it = <<>>
    /\ masters' = [masters EXCEPT ![mgr.log_data_path] =
                       InDomain(Written(@.frame), @.domain)]
    /\ pc' = "save"
    /\ UNCHANGED <<mgr, loop, raw, monthly, covfiles, hostdb, auVars, parseVars, libVars, last>>

\* coverage.save(), and in _write_incrementally the read of the master file
SaveCoverage ==
    /\ pc = "save"
    /\ IF ~summary_ok(mgr.coverage)
       THEN Ended("failed") /\ UNCHANGED covfiles
       ELSE /\ covfiles' = [covfiles EXCEPT ![mgr.log_data_path] = save(mgr.coverage)]
            /\ mgr' = [mgr EXCEPT !.log_data =
                          IF mgr.incremental THEN masters[mgr.log_data_path].frame ELSE @]
            /\ pc' = "validate"
            /\ UNCHANGED loop
    /\ UNCHANGED <<raw, monthly, masters, hostdb, auVars, parseVars, libVars, last>>

\* validate_log_data, and the return of prepare_log_data
ValidateLogData ==
    /\ pc = "validate"
    /\ IF validate_log_data(mgr.log_data)
       THEN pc' = "ready" /\ UNCHANGED <<mgr, loop>>
       ELSE Ended("failed")
    /\ UNCHANGED <<diskVars, auVars, parseVars, libVars, last>>

\* the process ends after prepare_log_data returned
Exit ==
    /\ pc = "ready"
    /\ Ended("idle")
    /\ last' = mgr.log_data
    /\ UNCHANGED <<diskVars, auVars, parseVars, libVars>>

\* KeyboardInterrupt, or another exception from outside, ends the run; the
\* with statement of _write_incrementally closes its writer on the way out
Interrupt ==
    /\ pc \in Running
    /\ masters' = IF pc = "incremental_write"
                  THEN [masters EXCEPT ![mgr.log_data_path] =
                                   InDomain(CutShort(@.frame), @.domain)]
                  ELSE masters
    /\ Ended("interrupted")
    /\ UNCHANGED <<raw, monthly, covfiles, hostdb, auVars, parseVars, libVars, last>>

\* the process is killed: nothing is closed
Kill ==
    /\ pc \in Running
    /\ Ended("interrupted")
    /\ UNCHANGED <<diskVars, auVars, parseVars, libVars, last>>

(***************************************************************************)
(* data_manager.py: a Coverage used on its own.  pc tells whether          *)
(* enriched-logs/ exists and what the last call on the Coverage did.       *)
(***************************************************************************)
CovLive == {"cov_new", "cov_registered", "cov_register_fault", "cov_summary",
            "cov_summary_fault", "cov_saved"}

\* Coverage(enriched_log_path): StorageError when the directory does not
\* exist, holds no monthly file, or holds files of several domains
CoverageNew ==
    /\ pc \in {"cov_nodir", "cov_dir"}
    /\ LET logs == sorted({m \in Months : monthly[m].exists}) IN
       IF pc = "cov_nodir" \/ logs = <<>> \/ SeveralDomains(logs)
       THEN pc' = "cov_StorageError" /\ UNCHANGED mgr
       ELSE pc' = "cov_new" /\ mgr' = [mgr EXCEPT !.coverage = Coverage(logs)]
    /\ UNCHANGED <<loop, diskVars, auVars, parseVars, libVars, last>>

\* coverage.register_log_data(month, df)
CoverageRegister(month, df) ==
    /\ pc \in CovLive
    /\ IF register_ok(mgr.coverage, month)
       THEN /\ mgr' = [mgr EXCEPT !.coverage = register_log_data(@, month, df)]
            /\ pc' = "cov_registered"
       ELSE pc' = "cov_register_fault" /\ UNCHANGED mgr
    /\ UNCHANGED <<loop, diskVars, auVars, parseVars, libVars, last>>

\* coverage.summary()
CoverageSummary ==
    /\ pc \in CovLive
    /\ pc' = IF summary_ok(mgr.coverage) THEN "cov_summary" ELSE "cov_summary_fault"
    /\ UNCHANGED <<mgr, loop, diskVars, auVars, parseVars, libVars, last>>

\* coverage.save(): summary(), then the JSON file through atomic_update
CoverageSave ==
    /\ pc \in CovLive
    /\ IF summary_ok(mgr.coverage)
       THEN /\ covfiles' = [covfiles EXCEPT ![<<mgr.coverage.begin, mgr.coverage.end>>] =
                                save(mgr.coverage)]
            /\ pc' = "cov_saved"
       ELSE pc' = "cov_summary_fault" /\ UNCHANGED covfiles
    /\ UNCHANGED <<mgr, loop, raw, monthly, masters, hostdb, auVars, parseVars, libVars, last>>

(***************************************************************************)
(* schema.py: validate called on its own, over frames with the columns of  *)
(* SCHEMA, of LOG_SCHEMA or one more, with some columns of another dtype,  *)
(* and with rows whose nulls are drawn from the columns the checks name.   *)
(***************************************************************************)
MaxRows == 2        \* rows of a frame passed to validate

ReferrerColumns ==
    { "referrer_scheme", "referrer_host", "referrer_path", "referrer_query",
      "referrer_fragment" }

\* the null columns of a sample row
RowNulls ==
    {n \cup {"referrer_fragment"} : n \in SUBSET (ReferrerColumns \ {"referrer_fragment"})}
        \cup {ReferrerColumns \ {"referrer_fragment"}}
        \cup (SUBSET {"path", "cool_path", "server_name"})
        \cup {{"server_name", "referrer_host"}}

\* the columns of a sample frame and those of them that are not of the
\* dtype SCHEMA gives them
SampleShapes ==
    { <<SCHEMA_KEYS, {}>>, <<LOG_SCHEMA_KEYS, {}>>, <<SCHEMA_KEYS, {"status"}>>,
      <<SCHEMA_KEYS \cup {"extra"}, {"status", "size"}>> }

SampleFrame(shape, nulls) ==
    [dtypes |-> [c \in shape[1] |->
                    IF c \in shape[2] THEN "int64"
                    ELSE IF c \in SCHEMA_KEYS THEN Dtype(c) ELSE "object"],
     rows |-> [r \in 1..Len(nulls) |-> Row(1, r, nulls[r])]]

\* the sample frames of up to max rows
SampleFrames(max) ==
    { SampleFrame(shape, nulls) :
        shape \in SampleShapes,
        nulls \in UNION {[1..n -> RowNulls] : n \in 0..max} }

NotValidated == [check |-> "pending", what |-> <<>>]

\* one call of validate
Validate ==
    /\ val # <<>>
    /\ val.res = NotValidated
    /\ val' = [val EXCEPT !.res = validate(val.df)]
    /\ UNCHANGED <<auVars, parseVars, pipeVars, enr, miy, det>>

(***************************************************************************)
(* month_in_year.py: MonthInYear, a (year, month) tuple, and its           *)
(* arithmetic, applied step by step to a month.                            *)
(***************************************************************************)
MaxAdd == 25        \* months added or subtracted in one step
MaxSteps == 2       \* operations applied in a row

MonthInYear(year, month) == [year |-> year, month |-> month]

\* the years of the sample months, within the range validate() admits
SampleYears == {2000, 2019, 2020, 2100}
SampleMonths == {MonthInYear(y, m) : y \in SampleYears, m \in 1..12}

\* __add__ without the carry into the year
add_without_carry(self, other) ==
    MonthInYear(self.year + (other \div 12), self.month + (other % 12))

\* __add__ with an int
add(self, other) ==
    LET year == self.year + (other \div 12)
        month == self.month + (other % 12)
    IN  IF month > 12 THEN MonthInYear(year + 1, month - 12)
        ELSE MonthInYear(year, month)

\* __sub__ with an int
sub(self, other) ==
    LET year == self.year - (other \div 12)
        month == self.month - (other % 12)
    IN  IF month < 1 THEN MonthInYear(year - 1, month + 12)
        ELSE MonthInYear(year, month)

\* __sub__ with a month-in-year
months_between(self, other) ==
    (self.year - other.year) * 12 + (self.month - other.month)

previous(self) ==
    IF self.month - 1 = 0 THEN MonthInYear(self.year - 1, 12)
    ELSE MonthInYear(self.year, self.month - 1)

next(self) ==
    IF self.month + 1 = 13 THEN MonthInYear(self.year + 1, 1)
    ELSE MonthInYear(self.year, self.month + 1)

\* the order of the tuples
less(a, b) == a.year < b.year \/ (a.year = b.year /\ a.month < b.month)

\* one operation on the month at hand
Operate(op, result) ==
    /\ miy # <<>>
    /\ miy.steps < MaxSteps
    /\ miy' = [miy EXCEPT !.at = result, !.was = miy.at, !.op = op,
                          !.before = miy.op, !.steps = @ + 1]
    /\ UNCHANGED <<auVars, parseVars, pipeVars, val, enr, det>>

MonthNext == miy # <<>> /\ Operate("next", next(miy.at))
MonthPrevious == miy # <<>> /\ Operate("previous", previous(miy.at))
MonthAdd == miy # <<>> /\ Operate("add", add(miy.at, miy.n))
MonthSub == miy # <<>> /\ Operate("sub", sub(miy.at, miy.n))

(***************************************************************************)
(* bot_detector.py: BotDetector.  bots.yml is a list of bots, each with a  *)
(* regex and its metadata, the catch-all last; a regex is modelled by the  *)
(* sample user agents it finds a match in.                                 *)
(***************************************************************************)
MaxCalls == 4       \* calls of test() and lookup() on one BotDetector

LINKEDIN == "LinkedInBot"
SAFARI == "Mozilla/5.0 (Macintosh) Safari/605.1.15"
SampleAgents == {SAFARI, LINKEDIN, "Googlebot/2.1", "examplebot"}

\* bots.yml as YAML loads it
BotsYml ==
    << [regex |-> "Googlebot", name |-> "Googlebot", category |-> "Search bot",
        url |-> "http://www.google.com/bot.html"],
       [regex |-> "LinkedInBot", name |-> "LinkedIn Bot",
        category |-> "Social Media Agent", url |-> "http://www.linkedin.com"],
       [regex |-> "bot(?:[^a-z]|$)", name |-> "Generic Bot", category |-> "",
        url |-> ""] >>

\* pattern.search(user_agent) for the regex of a bot
search(regex, user_agent) ==
    \/ regex = "Googlebot" /\ user_agent = "Googlebot/2.1"
    \/ regex = "LinkedInBot" /\ user_agent = LINKEDIN
    \/ regex = "bot(?:[^a-z]|$)" /\ user_agent \in {"Googlebot/2.1", "examplebot"}

\* __init__: self._bots, the last bot of bots.yml moved to the front
Bots ==
    <<BotsYml[Len(BotsYml)]>> \o SubSeq(BotsYml, 1, Len(BotsYml) - 1)

\* __init__: self._is_bot.search, the regexes joined with |
is_bot_search(user_agent) ==
    \E k \in 1..Len(BotsYml) : search(BotsYml[k].regex, user_agent)

\* bool(x), as the strings "True" and "False"
bool(b) == IF b THEN "True" ELSE "False"

\* the bot named so
BotNamed(name) == CHOOSE k \in 1..Len(Bots) : Bots[k].name = name

\* lookup: the first bot of self._bots whose pattern finds a match, by name
FirstMatch(user_agent) ==
    LET hits == {k \in 1..Len(Bots) : search(Bots[k].regex, user_agent)}
    IN  IF hits = {} THEN "True" ELSE Bots[Least(hits)].name

\* a new BotDetector: an empty cache, no call made; called[op, ua] is what
\* the first call of op with ua returned, "" before it
NewDetector ==
    [cache |-> <<>>, calls |-> 0,
     last |-> [op |-> "none", user_agent |-> "", result |-> ""],
     called |-> [c \in {"test", "lookup"} \X SampleAgents |-> ""]]

\* dict.get
get(cache, key) == IF key \in DOMAIN cache THEN cache[key] ELSE None

\* cache[key] = value
put(cache, key, value) ==
    [k \in DOMAIN cache \cup {key} |-> IF k = key THEN value ELSE cache[k]]

\* what a call leaves behind
Returned(op, user_agent, cache, result) ==
    det' = [det EXCEPT
              !.cache = cache,
              !.calls = @ + 1,
              !.last = [op |-> op, user_agent |-> user_agent, result |-> result],
              !.called[<<op, user_agent>>] = IF @ = "" THEN result ELSE @]

\* test(user_agent): a cached value is a bool or the dict of a bot, and the
\* bool of a dict with keys is True
Test(user_agent) ==
    /\ det # <<>>
    /\ det.calls < MaxCalls
    /\ LET cached == get(det.cache, user_agent)
           result == IF cached = None THEN bool(is_bot_search(user_agent)) ELSE cached
           cache == IF cached = None THEN put(det.cache, user_agent, result)
                    ELSE det.cache
       IN  Returned("test", user_agent, cache, bool(result # "False"))
    /\ UNCHANGED <<auVars, parseVars, pipeVars, val, enr, miy>>

\* lookup(user_agent): a cached True is replaced by the first bot whose
\* pattern matches; the assertion fails when there is none
Lookup(user_agent) ==
    /\ det # <<>>
    /\ det.calls < MaxCalls
    /\ LET cached == get(det.cache, user_agent)
           result == IF cached = None THEN bool(is_bot_search(user_agent)) ELSE cached
           found == IF result = "True" THEN FirstMatch(user_agent) ELSE result
           cache == IF cached = None \/ result = "True"
                    THEN put(det.cache, user_agent, found) ELSE det.cache
       IN  Returned("lookup", user_agent, cache,
                    IF found = "True" THEN "AssertionError"
                    ELSE IF found = "False" THEN None ELSE found)
    /\ UNCHANGED <<auVars, parseVars, pipeVars, val, enr, miy>>

(***************************************************************************)
(* parser.py: the three enrichment passes, enrich_client_name,             *)
(* enrich_client_location and enrich_user_agent, over one batch, a record  *)
(* at a step, in any order.  log_data maps a column to its list of values; *)
(* a column not yet touched is the empty list of the defaultdict.  The     *)
(* resolver answers for the addresses of enr.dns; the city database is     *)
(* that of Located.                                                        *)
(***************************************************************************)
MaxBatch == 2       \* records of a batch

\* client addresses, as _IP_ADDRESS admits them; the last is no IP address
EnrichAddresses == {"1.1.1.1", "2.2.2.2", "999.1.1.1"}
is_ip_address(address) == address # "999.1.1.1"
EnrichAgents == {None, LINKEDIN}

NameColumns == {"client_name"}
LocationColumns ==
    {"client_latitude", "client_longitude", "client_city", "client_country"}
AgentColumns ==
    {"agent_family", "agent_version", "os_family", "os_version", "device_family",
     "device_brand", "device_model", "is_bot", "bot_category", "is_bot2"}
Passes == {"client_name", "client_location", "user_agent"}
PassColumns(pass) ==
    CASE pass = "client_name" -> NameColumns
      [] pass = "client_location" -> LocationColumns
      [] pass = "user_agent" -> AgentColumns
      [] OTHER -> {}

\* socket.gethostbyaddr(address)[0] where the resolver answers
gethostbyaddr(address) == IF address = "1.1.1.1" THEN "one.one.one.one" ELSE "S.com"

\* a lookup whose failures are looked up again
cached_unless_absent(hostnames, address) ==
    address \in DOMAIN hostnames /\ hostnames[address] # None

\* address in hostnames
cached(hostnames, address) == address \in DOMAIN hostnames

\* the entry a reverse lookup leaves in hostnames: the lower-case name, None
\* after socket.error
resolve(dns, address) ==
    IF address \in dns THEN lower(gethostbyaddr(address)) ELSE None

\* reader.city(address): the city, AddressNotFoundError for an address the
\* database does not hold, ValueError for a string that is no address
city(address) ==
    IF ~is_ip_address(address) THEN "ValueError"
    ELSE IF address \in Located THEN "city" ELSE "AddressNotFoundError"

\* the four values enrich_client_location appends for a record
LocationRow(address) ==
    IF city(address) = "city"
    THEN [client_latitude |-> "34.05", client_longitude |-> "-118.24",
          client_city |-> "Los Angeles", client_country |-> "US"]
    ELSE [client_latitude |-> "nan", client_longitude |-> "nan",
          client_city |-> None, client_country |-> None]

\* BotCategory.of, on the bots of the sample
BotCategoryOf(description) ==
    IF description = None THEN "NONE"
    ELSE LET label == Bots[BotNamed(description)].category
         IN  CASE label = "Social Media Agent" -> "SOCIAL"
               [] label = "Search bot" -> "SEARCH"
               [] OTHER -> "GENERIC"

\* bot_detector.lookup(user_agent) of a new BotDetector
lookup(user_agent) ==
    IF is_bot_search(user_agent) THEN FirstMatch(user_agent) ELSE None

\* the values for an absent user agent, three of them left out
UserAgentRowShort(user_agent) ==
    [agent_family |-> None, agent_version |-> None, os_family |-> None,
     os_version |-> None, device_family |-> None, device_brand |-> None,
     device_model |-> None]

\* the ten values enrich_user_agent appends for a record; ua-parser makes
\* family, version, os and device of the sample agent
UserAgentRow(user_agent) ==
    IF user_agent = None
    THEN [agent_family |-> None, agent_version |-> None, os_family |-> None,
          os_version |-> None, device_family |-> None, device_brand |-> None,
          device_model |-> None, is_bot |-> "False", bot_category |-> "NONE",
          is_bot2 |-> "False"]
    ELSE [agent_family |-> "LinkedInBot", agent_version |-> "1.0",
          os_family |-> "Other", os_version |-> "", device_family |-> "Spider",
          device_brand |-> "Spider", device_model |-> "Desktop",
          is_bot |-> "True",
          bot_category |-> BotCategoryOf(lookup(user_agent)),
          is_bot2 |-> bool(BotCategoryOf(lookup(user_agent)) # "NONE")]

\* append_to_column for each value of a row
AppendRow(log_data, row) ==
    [c \in DOMAIN log_data |->
        IF c \in DOMAIN row THEN Append(log_data[c], row[c]) ELSE log_data[c]]

\* hostnames.json
NoHostnames == [exists |-> FALSE, data |-> <<>>]
Hostnames(data) == [exists |-> TRUE, data |-> data]
HostnameFiles ==
    { NoHostnames, Hostnames(<<>>),
      Hostnames([a \in {"1.1.1.1"} |-> None]),
      Hostnames([a \in {"2.2.2.2"} |-> "s.com"]) }

\* log_data as parse_all_lines leaves it, its other columns left out
ParsedBatch(rows) ==
    [c \in {"client_address", "user_agent"} \cup NameColumns \cup LocationColumns
            \cup AgentColumns |->
        IF c = "client_address" THEN [r \in 1..Len(rows) |-> rows[r][1]]
        ELSE IF c = "user_agent" THEN [r \in 1..Len(rows) |-> rows[r][2]]
        ELSE <<>>]

EnrichLive == enr # <<>> /\ enr.pass \in Passes

\* a pass begins: its columns are empty (the asserts), and
\* enrich_client_name loads hostnames.json, {} when there is no file
EnrichStart(pass) ==
    /\ enr # <<>>
    /\ enr.pass = "none"
    /\ pass \notin Range(enr.done)
    /\ \A c \in PassColumns(pass) : enr.log_data[c] = <<>>
    /\ enr' = [enr EXCEPT !.pass = pass, !.i = 1,
                          !.hostnames = IF pass = "client_name" THEN enr.file.data
                                        ELSE @]
    /\ UNCHANGED <<auVars, parseVars, pipeVars, val, miy, det>>

\* enrich_client_name, one address: looked up only when not in hostnames
ClientNameRecord ==
    /\ EnrichLive
    /\ enr.pass = "client_name"
    /\ enr.i <= Len(enr.log_data.client_address)
    /\ LET address == enr.log_data.client_address[enr.i]
           known == cached(enr.hostnames, address)
           hostnames == IF known THEN enr.hostnames
                        ELSE put(enr.hostnames, address, resolve(enr.dns, address))
       IN  enr' = [enr EXCEPT
                     !.hostnames = hostnames,
                     !.events = IF known THEN @ ELSE Append(@, <<"lookup", address>>),
                     !.log_data = AppendRow(@, [client_name |-> hostnames[address]]),
                     !.i = @ + 1]
    /\ UNCHANGED <<auVars, parseVars, pipeVars, val, miy, det>>

\* enrich_client_name, after the loop: atomic_update replaces hostnames.json
ClientNameSave ==
    /\ EnrichLive
    /\ enr.pass = "client_name"
    /\ enr.i > Len(enr.log_data.client_address)
    /\ enr' = [enr EXCEPT !.file = Hostnames(enr.hostnames),
                          !.events = Append(@, <<"save", "hostnames.json">>),
                          !.pass = "none",
                          !.done = Append(@, "client_name")]
    /\ UNCHANGED <<auVars, parseVars, pipeVars, val, miy, det>>

\* enrich_client_location, one address: only AddressNotFoundError is caught
\* (the cache of the pass saves lookups and changes no value)
ClientLocationRecord ==
    /\ EnrichLive
    /\ enr.pass = "client_location"
    /\ enr.i <= Len(enr.log_data.client_address)
    /\ LET address == enr.log_data.client_address[enr.i]
       IN  IF city(address) = "ValueError"
           THEN enr' = [enr EXCEPT !.pass = "raised", !.exc = "ValueError"]
           ELSE enr' = [enr EXCEPT !.log_data = AppendRow(@, LocationRow(address)),
                                   !.i = @ + 1]
    /\ UNCHANGED <<auVars, parseVars, pipeVars, val, miy, det>>

\* enrich_user_agent, one user agent
UserAgentRecord ==
    /\ EnrichLive
    /\ enr.pass = "user_agent"
    /\ enr.i <= Len(enr.log_data.user_agent)
    /\ enr' = [enr EXCEPT
                 !.log_data = AppendRow(@, UserAgentRow(enr.log_data.user_agent[enr.i])),
                 !.i = @ + 1]
    /\ UNCHANGED <<auVars, parseVars, pipeVars, val, miy, det>>

\* enrich_client_location or enrich_user_agent returns
EnrichReturn ==
    /\ EnrichLive
    /\ enr.pass \in {"client_location", "user_agent"}
    /\ enr.i > Len(enr.log_data.client_address)
    /\ enr' = [enr EXCEPT !.pass = "none", !.done = Append(@, enr.pass)]
    /\ UNCHANGED <<auVars, parseVars, pipeVars, val, miy, det>>

(***************************************************************************)
(* The specifications.                                                     *)
(***************************************************************************)
\* no data root is being worked on
PipeIdle ==
    /\ raw = [m \in Months |-> NoRaw]
    /\ monthly = [m \in Months |-> NoFile]
    /\ masters = [r \in Ranges |-> NoFile]
    /\ covfiles = [r \in Ranges |-> NoCoverageFile]
    /\ hostdb = "miss"
    /\ pc = "idle"
    /\ mgr = NewManager(FALSE)
    /\ loop = NoLocals
    /\ last = NoFrame

\* a data root before the first run of this program: the raw logs of some
\* months and, in enriched-logs/, the monthly files an earlier ingestion
\* made of them
InitPipe ==
    /\ \E found \in SUBSET Months :
          /\ raw = [m \in Months |-> IF m \in found THEN RawLog(m) ELSE NoRaw]
          /\ monthly = [m \in Months |-> IF m \in found THEN FoundFile(m) ELSE NoFile]
    /\ masters = [r \in Ranges |-> NoFile]
    /\ covfiles = [r \in Ranges |-> NoCoverageFile]
    /\ hostdb = "miss"
    /\ pc = "idle"
    /\ mgr = NewManager(FALSE)
    /\ loop = NoLocals
    /\ last = NoFrame
    /\ AuIdle
    /\ ParseIdle
    /\ LibIdle

NextPipe ==
    \/ \E month \in Months : AddRawLog(month)
    \/ Exit
    \/ \E incremental \in BOOLEAN : StartRun(incremental)
    \/ IngestSkip
    \/ \E answer \in {"one.one.one.one", None} : IngestAccessLog(answer)
    \/ IngestWritten
    \/ IngestDone
    \/ CombineStart
    \/ LoadExisting
    \/ CombineAndWrite
    \/ FullWritten
    \/ WriteIncrementally
    \/ WriteNextTable
    \/ WriterClosed
    \/ SaveCoverage
    \/ ValidateLogData
    \/ Interrupt
    \/ Kill

SpecPipe == InitPipe /\ [][NextPipe]_vars

\* ingest_all_access_logs alone, run after run, over access-logs/ with a log
\* of any sample lines for the first month and possibly a log for the second,
\* each of either domain; enriched-logs/ is empty at first
InitIngest ==
    /\ \E first \in SampleLogs :
       \E second \in {NoRaw} \cup {InDomain(RawLog(2), d) : d \in {TheDomain, OtherDomain}} :
          raw = [m \in Months |-> IF m = 1 THEN first ELSE IF m = 2 THEN second ELSE NoRaw]
    /\ monthly = [m \in Months |-> NoFile]
    /\ masters = [r \in Ranges |-> NoFile]
    /\ covfiles = [r \in Ranges |-> NoCoverageFile]
    /\ hostdb = "miss"
    /\ pc = "idle"
    /\ mgr = NewManager(FALSE)
    /\ loop = NoLocals
    /\ last = NoFrame
    /\ AuIdle
    /\ ParseIdle
    /\ LibIdle

NextIngest ==
    \/ \E incremental \in BOOLEAN : StartRun(incremental)
    \/ IngestOtherDomain
    \/ IngestSkip
    \/ \E answer \in {"one.one.one.one", None} : IngestAccessLog(answer)
    \/ IngestWritten
    \/ IngestDone
    \/ Interrupt

SpecIngest == InitIngest /\ [][NextIngest]_vars

\* a Coverage over any enriched-logs/: absent, empty, or with monthly files
\* of either domain; any month and any monthly frame is registered
InitCov ==
    /\ raw = [m \in Months |-> NoRaw]
    /\ monthly \in [Months -> {NoFile} \cup UNION {{FoundFile(m), InDomain(FoundFile(m), OtherDomain)} : m \in Months}]
    /\ \A m \in Months : monthly[m].exists => monthly[m].frame = FoundFrame(m)
    /\ masters = [r \in Ranges |-> NoFile]
    /\ covfiles = [r \in Ranges |-> NoCoverageFile]
    /\ hostdb = "miss"
    /\ pc \in {"cov_nodir", "cov_dir"}
    /\ pc = "cov_nodir" => monthly = [m \in Months |-> NoFile]
    /\ mgr = NewManager(FALSE)
    /\ loop = NoLocals
    /\ last = NoFrame
    /\ AuIdle
    /\ ParseIdle
    /\ LibIdle

NextCov ==
    \/ CoverageNew
    \/ \E month \in Months : \E k \in Months : CoverageRegister(month, FoundFrame(k))
    \/ CoverageSummary
    \/ CoverageSave

SpecCov == InitCov /\ [][NextCov]_vars

\* validate over any sample frame
InitValidate ==
    /\ \E df \in SampleFrames(MaxRows) : val = [df |-> df, res |-> NotValidated]
    /\ enr = <<>> /\ miy = <<>> /\ det = <<>>
    /\ AuIdle
    /\ ParseIdle
    /\ PipeIdle

NextValidate == Validate

SpecValidate == InitValidate /\ [][NextValidate]_vars

\* any sample month and any number of months to add or subtract
InitMonth ==
    /\ \E m \in SampleMonths : \E n \in 0..MaxAdd :
          miy = [n |-> n, at |-> m, was |-> m, op |-> "none", before |-> "none",
                 steps |-> 0]
    /\ val = <<>> /\ enr = <<>> /\ det = <<>>
    /\ AuIdle
    /\ ParseIdle
    /\ PipeIdle

NextMonth == MonthNext \/ MonthPrevious \/ MonthAdd \/ MonthSub

SpecMonth == InitMonth /\ [][NextMonth]_vars

\* one BotDetector and any calls of test and lookup
InitBot ==
    /\ det = NewDetector
    /\ val = <<>> /\ enr = <<>> /\ miy = <<>>
    /\ AuIdle
    /\ ParseIdle
    /\ PipeIdle

NextBot ==
    \E user_agent \in SampleAgents :
        \/ Test(user_agent)
        \/ Lookup(user_agent)

SpecBot == InitBot /\ [][NextBot]_vars

\* a parsed batch of any addresses and user agents, any hostnames.json, and
\* a resolver that answers for some of the addresses
InitEnrich ==
    /\ \E dns \in SUBSET {"1.1.1.1", "2.2.2.2"} :
       \E file \in HostnameFiles :
       \E rows \in UNION {[1..n -> EnrichAddresses \X EnrichAgents] : n \in 0..MaxBatch} :
          enr = [dns |-> dns, file |-> file, file0 |-> file,
                 log_data |-> ParsedBatch(rows), pass |-> "none", i |-> 0,
                 hostnames |-> <<>>, done |-> <<>>, events |-> <<>>, exc |-> ""]
    /\ val = <<>> /\ miy = <<>> /\ det = <<>>
    /\ AuIdle
    /\ ParseIdle
    /\ PipeIdle

NextEnrich ==
    \/ \E pass \in Passes : EnrichStart(pass)
    \/ ClientNameRecord
    \/ ClientNameSave
    \/ ClientLocationRecord
    \/ UserAgentRecord
    \/ EnrichReturn

SpecEnrich == InitEnrich /\ [][NextEnrich]_vars

InitParse ==
    /\ pline \in Lines
    /\ pres = Pending
    /\ AuIdle
    /\ PipeIdle
    /\ LibIdle

NextParse == ParseLine

SpecParse == InitParse /\ [][NextParse]_vars

InitAU ==
    /\ target \in {Absent, File(Original)}
    /\ tmps = [n \in TmpNames |-> Absent]
    /\ upd = [w \in Updaters |-> NoUpdater]
    /\ ParseIdle
    /\ PipeIdle
    /\ LibIdle

NextAU ==
    \E w \in Updaters :
        \/ \E n \in TmpNames : AuNew(w, n)
        \/ AuWrite(w)
        \/ AuFlush(w)
        \/ AuExitNormal(w)
        \/ AuExitRaise(w)
        \/ AuKill(w)

SpecAU == InitAU /\ [][NextAU]_vars

\* atomic_update with any number of instances open on the target at a time,
\* each of which commits
NextConcurrent ==
    \E w \in Updaters :
        \/ \E n \in TmpNames : AuOpen(w, n)
        \/ AuWrite(w)
        \/ AuFlush(w)
        \/ AuExitNormal(w)

SpecConcurrent == InitAU /\ [][NextConcurrent]_vars

\* one atomic_update instance with close() called again and again through
\* close(), __exit__ and __del__, and with file.close() and os.replace
\* failing; instances share nothing but the target, and SpecAU has them one
\* after the other
NextClose ==
    \E w \in {1} :
        \/ \E n \in TmpNames : AuNew(w, n)
        \/ AuWrite(w)
        \/ AuFlush(w)
        \/ AuExitNormal(w)
        \/ AuExitRaise(w)
        \/ \E commit \in BOOLEAN : AuCloseFails(w, commit)
        \/ AuReplaceFails(w)
        \/ \E commit \in BOOLEAN : AuCloseAgain(w, commit)

SpecClose == InitAU /\ [][NextClose]_vars

(***************************************************************************)
(* Claims on atomic_update (SpecAU).                                       *)
(***************************************************************************)
Closes(w) == upd[w].st = "open" /\ upd'[w].st = "closed"
Aborts(w) == Closes(w) /\ upd'[w].how = "aborted"
Commits(w) == Closes(w) /\ upd'[w].how = "committed"

\* C1: from the creation of an updater until its close the target holds its
\* complete prior content (or is absent as before); the only step that changes
\* the target is the rename of close(commit=True), and it puts the complete
\* written text there.
C1_TargetPriorOrComplete ==
    [][ /\ \A w \in Updaters :
              upd[w].st = "open" =>
                  /\ target = upd[w].prior
                  /\ target' # target =>
                        Commits(w) /\ target' = File(upd[w].wrote)
        /\ (\A w \in Updaters : upd[w].st # "open") => target' = target ]_vars

\* C1 witness: an update of an existing target that wrote twice and committed
C1_W ==
    \E w \in Updaters :
        /\ upd[w].how = "committed"
        /\ upd[w].prior = File(Original)
        /\ Len(upd[w].wrote) >= 2
        /\ target = File(upd[w].wrote)

\* C2: an update whose with body raises leaves the target as it was and its
\* temp file present with the text written so far; an update whose body
\* completes leaves the target equal to the written text and no temp file of
\* that update.
C2_RaiseKeepsCompleteReplaces ==
    [][ \A w \in Updaters :
          /\ Aborts(w) =>
                /\ target' = upd[w].prior
                /\ tmps'[upd[w].tmp] = File(upd[w].wrote)
          /\ Commits(w) =>
                /\ target' = File(upd[w].wrote)
                /\ ~tmps'[upd[w].tmp].exists ]_vars

\* C2 witness: one update aborted with its text in its temp file, a later one
\* committed (steps 2 and 3 of test_atomic_update)
C2_W ==
    \E w, v \in Updaters :
        /\ upd[w].how = "aborted"
        /\ upd[w].wrote # <<>>
        /\ tmps[upd[w].tmp] = File(upd[w].wrote)
        /\ upd[v].how = "committed"
        /\ upd[v].wrote # <<>>
        /\ target = File(upd[v].wrote)
        /\ ~tmps[upd[v].tmp].exists

\* C3 as claimed: an abort discards the temp file and leaves the target
\* untouched.
C3_AbortDiscardsTmpFile ==
    [][ \A w \in Updaters :
          Aborts(w) => ~tmps'[upd[w].tmp].exists /\ target' = target ]_vars

\* C3 as amended: an abort closes the temp file and leaves it in the target's
\* directory with the text written so far; no file is renamed or removed and
\* the target is untouched.
C3_AbortLeavesTmpFile ==
    [][ \A w \in Updaters :
          Aborts(w) =>
              /\ target' = target
              /\ tmps'[upd[w].tmp] = File(upd[w].wrote)
              /\ \A n \in TmpNames : n # upd[w].tmp => tmps'[n] = tmps[n] ]_vars

\* C3 witness: an aborted update of an existing target; the target is the
\* original and the temp file holds the text
C3_W ==
    \E w \in Updaters :
        /\ upd[w].how = "aborted"
        /\ upd[w].wrote # <<>>
        /\ upd[w].prior = File(Original)
        /\ target = File(Original)
        /\ tmps[upd[w].tmp] = File(upd[w].wrote)

\* C24: when instances are open side by side and commit, those open at a
\* time have different temp files, only a commit changes the target, and each
\* commit puts there the whole text of its instance and nothing else, so the
\* target is the original or the text of the instance that renamed last.
C24_ConcurrentCommitsLastRenameWins ==
    [][ /\ \A w, v \in Updaters :
              (w # v /\ upd[w].st = "open" /\ upd[v].st = "open")
                  => upd[w].tmp # upd[v].tmp
        /\ \A w \in Updaters : Commits(w) => target' = File(upd[w].wrote)
        /\ (\A w \in Updaters : ~Commits(w)) => target' = target ]_vars

\* C24 witness: two instances that found the same original both wrote and
\* committed, and the target holds the text of the first
C24_W ==
    /\ upd[1].how = "committed" /\ upd[2].how = "committed"
    /\ upd[1].prior = File(Original) /\ upd[2].prior = File(Original)
    /\ upd[1].wrote # <<>> /\ upd[2].wrote # <<>>
    /\ upd[1].wrote # upd[2].wrote
    /\ upd[1].tmp # upd[2].tmp
    /\ target = File(upd[1].wrote)

\* a call of close() on instance w
Called(w) == upd'[w].calls = upd[w].calls + 1

\* C30: a call of close() on an instance that was closed before, whatever
\* its argument, changes no file and raises nothing; the target changes only
\* in the first close() of an instance, called with commit; and a call
\* without commit raises nothing, also when file.close() fails.
C30_CommitsAtMostOnce ==
    [][ /\ \A w \in Updaters :
              /\ (Called(w) /\ upd[w].st = "closed") =>
                    /\ target' = target /\ tmps' = tmps
                    /\ ~upd'[w].raised
                    /\ upd'[w].st = "closed" /\ upd'[w].how = upd[w].how
              /\ (Called(w) /\ ~upd'[w].commit) => ~upd'[w].raised /\ target' = target
        /\ target' # target =>
              \E w \in Updaters : Called(w) /\ upd[w].st = "open" /\ upd'[w].commit
      ]_vars

\* C30 witness: an aborted update of an existing target whose close() was
\* then called with commit: the target is the original, the temp file is there
C30_W ==
    \E w \in Updaters :
        /\ upd[w].how = "aborted"
        /\ upd[w].calls >= 2 /\ upd[w].commit
        /\ upd[w].wrote # <<>>
        /\ upd[w].prior = File(Original)
        /\ target = File(Original)
        /\ tmps[upd[w].tmp].exists

(***************************************************************************)
(* Claims on parse_line (SpecParse).                                       *)
(***************************************************************************)
\* C10: for every line parse_line returns a dict or None; no exception leaves
\* the call, also for a line that matches the pattern with an unknown method,
\* an impossible date or a status outside 200..599.
C10_ParseLineNeverRaises == pres.kind \in {"pending", "None", "dict"}

\* the pieces every line has are of the form _LINE_PATTERN asks for, and each
\* of the two suffixes is there whole or not at all
Conforming(line) ==
    /\ line.client_address \in IPv4
    /\ line.timestamp.text # ""
    /\ line.method # <<>> /\ AllLetters(line.method)
    /\ line.protocol \in HttpProtocol
    /\ Len(line.status) = 3 /\ AllDigits(line.status)
    /\ (line.size = <<"-">> \/ (line.size # <<>> /\ AllDigits(line.size)))
    /\ \/ line.referrer = Missing /\ line.user_agent = Missing
       \/ /\ line.referrer.present /\ line.referrer.quoted
          /\ line.user_agent.present /\ line.user_agent.quoted
    /\ line.server.present => line.server.address \in IPv4

\* the values of the line are those of a request: a method of HttpMethod, a
\* moment of the calendar, a status of a class
InRange(line) ==
    /\ upper(line.method) \in HttpMethod
    /\ parse_timestamp_ok(line.timestamp)
    /\ HttpStatusOf(int(line.status)) # "ValueError"

\* C25: parse_line makes a record of every conforming line with values in
\* range, with or without the quoted referrer and user agent and with or
\* without the server name and address; the fields of an absent suffix are
\* None.
C25_OptionalSuffixesAreIndependent ==
    (pres.kind \notin {"idle", "pending"} /\ Conforming(pline) /\ InRange(pline)) =>
        /\ pres.kind = "dict"
        /\ pline.referrer = Missing =>
              pres.props.referrer = None /\ pres.props.user_agent = None
        /\ ~pline.server.present =>
              pres.props.server_name = None /\ pres.props.server_address = None

(***************************************************************************)
(* Claims on ingest_all_access_logs (SpecIngest).                          *)
(***************************************************************************)
\* the log ingest_all_access_logs is about to read has a line parse_line
\* makes no dict of
ReadsBadLog(answer) ==
    IngestAccessLog(answer) /\ FirstBad(raw[Head(loop.queue)].lines) # 0

\* C11: when a line of a raw log fails the grammar or has an out-of-range
\* value, the ingestion of the file fails with a ParseError that carries the
\* 1-based number of the first such line, and no monthly file is written.
C11_BadLineIsParseErrorWithNumber ==
    [][ \A answer \in {"one.one.one.one", None} :
          ReadsBadLog(answer) =>
              LET lines == raw[Head(loop.queue)].lines IN
              /\ parse_all_lines(lines).kind = "ParseError"
              /\ parse_all_lines(lines).line = FirstBad(lines)
              /\ pc' = "failed"
              /\ monthly' = monthly ]_vars

\* access-logs/ holds logs of more than one domain
SeveralRawDomains ==
    \E m, n \in Months :
        raw[m].exists /\ raw[n].exists /\ raw[m].domain # raw[n].domain

\* C15: when access-logs/ holds logs of more than one domain, the run fails
\* with a StorageError at discovery: no log is ingested and no monthly file
\* is written, before the error or at all.
C15_SeveralDomainsFailBeforeIngestion ==
    [][ SeveralRawDomains => (monthly' = monthly /\ pc' # "to_parquet") ]_vars

(***************************************************************************)
(* Claims on Coverage (SpecCov).                                           *)
(***************************************************************************)
\* the months of the monthly files in enriched-logs/
Discovered == {m \in Months : monthly[m].exists}
\* the months registered with the Coverage
Registered == DOMAIN mgr.coverage.requests

\* C16: for every constructed Coverage begin is the least and end the
\* greatest month of the monthly files discovered, begin <= end, and after
\* any calls of register_log_data every registered month is in [begin, end].
C16_RangeIsMinMaxOfDiscovered ==
    pc \in CovLive =>
        LET cov == mgr.coverage IN
        /\ cov.begin \in Discovered /\ \A m \in Discovered : cov.begin <= m
        /\ cov.end \in Discovered /\ \A m \in Discovered : m <= cov.end
        /\ cov.begin <= cov.end
        /\ \A m \in Registered : cov.begin <= m /\ m <= cov.end

\* C16 witness: a Coverage over several monthly files, not from the first
\* month on, after a registration and a faulting one
C16_W ==
    /\ pc = "cov_register_fault"
    /\ Registered # {}
    /\ mgr.coverage.begin > 1
    /\ mgr.coverage.begin < mgr.coverage.end

\* C17: register_log_data faults when the month is outside [begin, end] or
\* already registered, and then leaves the counts, the total and the day
\* and month counters as they were; otherwise it records the row count of
\* the table for the month and adds exactly that count to the total.
C17_RegisterFaultsOrRecords ==
    [][ \A month \in Months : \A k \in Months :
          CoverageRegister(month, FoundFrame(k)) =>
              LET cov == mgr.coverage
                  n == Len(FoundFrame(k).rows)
              IN  IF month < cov.begin \/ month > cov.end \/ month \in Registered
                  THEN pc' = "cov_register_fault" /\ mgr'.coverage = cov
                  ELSE /\ pc' = "cov_registered"
                       /\ DOMAIN mgr'.coverage.requests = Registered \cup {month}
                       /\ mgr'.coverage.requests[month] = n
                       /\ \A m \in Registered :
                             mgr'.coverage.requests[m] = cov.requests[m]
                       /\ mgr'.coverage.total = cov.total + n ]_vars

\* C17 witness: a call faulted for a month registered before
C17_W ==
    /\ pc = "cov_register_fault"
    /\ Registered # {}
    /\ mgr.coverage.total = SumRequests(mgr.coverage.requests)
    /\ mgr.coverage.total > 0

\* C18: once every discovered monthly file is registered summary() passes
\* its assertions; what it returns has as missing exactly the months of
\* [begin, end] with no registered data, null when there are none, as months
\* the number of registered months and as days the sum of their calendar
\* lengths (29 for February 2020); and when begin was never registered
\* summary() fails.
C18_SummaryCountsAndMissing ==
    [][ (CoverageSummary \/ CoverageSave) =>
            LET cov == mgr.coverage
                range == cov.begin..cov.end
            IN  /\ Discovered \subseteq Registered =>
                       pc' \in {"cov_summary", "cov_saved"}
                /\ cov.begin \notin Registered => pc' = "cov_summary_fault"
                /\ pc' = "cov_saved" =>
                       LET sm == covfiles'[<<cov.begin, cov.end>>].summary IN
                       /\ sm.months = Cardinality(Registered)
                       /\ sm.days = SumDays(Registered)
                       /\ Registered = {2} => sm.days = 29
                       /\ sm.requests = SumRequests(cov.requests)
                       /\ sm.missing.null = (range \subseteq Registered)
                       /\ sm.missing.months = sorted(range \ Registered) ]_vars

\* C18 witness: a saved summary of a Coverage with two months registered and
\* a month missing between them
C18_W ==
    /\ pc = "cov_saved"
    /\ Discovered \subseteq Registered
    /\ LET sm == covfiles[<<mgr.coverage.begin, mgr.coverage.end>>].summary IN
       sm.missing.months # <<>> /\ sm.months = 2 /\ sm.days > 31

\* C19: the construction of a Coverage fails with StorageError when
\* enriched-logs/ does not exist, holds no monthly file, or holds monthly
\* files of more than one domain; in every other case it succeeds, and all
\* discovered files are of the domain of the Coverage.
C19_ConstructionFailsOrOneDomain ==
    [][ CoverageNew =>
            IF \/ pc = "cov_nodir"
               \/ Discovered = {}
               \/ \E m, n \in Discovered : monthly[m].domain # monthly[n].domain
            THEN pc' = "cov_StorageError"
            ELSE /\ pc' = "cov_new"
                 /\ \A m \in Discovered : monthly[m].domain = mgr'.coverage.domain ]_vars

\* C19 witness: the construction failed over monthly files of two domains
C19_W ==
    /\ pc = "cov_StorageError"
    /\ \E m, n \in Discovered : monthly[m].domain # monthly[n].domain

(***************************************************************************)
(* Claims on the pipeline (SpecPipe).                                      *)
(***************************************************************************)
\* C4: while the master table is rebuilt, and after an interruption of the
\* rebuild, every master file on disk is a complete one, never a partially
\* written one, and a run only ever loads a complete master file.
C4_MasterFileNeverPartial ==
    /\ \A r \in Ranges : masters[r].exists => masters[r].complete
    /\ pc \in {"validate", "ready"} => masters[mgr.log_data_path].complete

\* the rows of the monthly files in enriched-logs/, in ascending month order
RECURSIVE MonthlyRows(_)
MonthlyRows(logs) ==
    IF logs = <<>> THEN <<>>
    ELSE monthly[Head(logs)].frame.rows \o MonthlyRows(Tail(logs))

\* C5: whenever a run is Ready, after any earlier runs, interrupted ones
\* included, the rows of the exposed master table are exactly the rows of all
\* monthly files present in enriched-logs/, in ascending month order.
C5_ReadyMasterIsAllMonthlyRows ==
    pc = "ready" =>
        mgr.log_data.rows = MonthlyRows(sorted({m \in Months : monthly[m].exists}))

\* C6: whenever prepare_log_data has returned (Ready), the per-month request
\* counts of the returned Coverage sum to the row count of the returned
\* master table, whether the master was rebuilt or an existing file loaded.
C6_CoverageSumIsRowCount ==
    pc = "ready" => SumRequests(mgr.coverage.requests) = Len(mgr.log_data.rows)

\* C7: when a run has ingested a new month, combine_monthly_logs deletes the
\* master and coverage files earlier runs left before it builds the new
\* master: none is left under the data root, also when the new month changed
\* the covered range and with it the files' name.
C7_StaleOutputsDeleted ==
    [][ (CombineStart /\ mgr.did_ingest_access_log = "True" /\ pc' = "combine_write") =>
            \A r \in Ranges : ~masters'[r].exists /\ ~covfiles'[r].exists ]_vars

\* C8: a partial monthly file an interrupted run left is not taken for an
\* ingested month: the ingestion loop skips a month only when its monthly
\* file is complete, and no run that meets a partial monthly file is Ready
\* with that file still partial.
C8_PartialMonthlyIsReingested ==
    [][ /\ IngestSkip => monthly[Head(loop.queue)].complete
        /\ pc' = "ready" => \A m \in Months : (monthly'[m].exists => monthly'[m].complete)
      ]_vars

\* C9: a run is Ready only if its master table passes schema.validate: the
\* columns are those of SCHEMA, each of its dtype, the non-null columns have
\* no nulls and the null constraints hold.
C9_ReadyOnlyIfValidatePasses ==
    pc = "ready" => validate(mgr.log_data) = Accepted

\* C12: a run after a run that was Ready, with no raw log arrived in between,
\* writes no monthly file, neither deletes nor rewrites a master or coverage
\* file, and when it is Ready it exposes the table the earlier run exposed.
C12_RerunChangesNothing ==
    [][ last # NoFrame =>
            /\ monthly' = monthly
            /\ masters' = masters
            /\ covfiles' = covfiles
            /\ pc' = "ready" => mgr'.log_data = last ]_vars

\* C12 witness: the second of two runs that skipped the raw log of a month is
\* Ready with the table the first one exposed
C12_W ==
    /\ pc = "ready"
    /\ last # NoFrame
    /\ mgr.log_data = last
    /\ \E m \in Months : raw[m].exists /\ monthly[m].complete

\* every raw log has its monthly file, and none is being written
AllIngested ==
    /\ pc # "to_parquet"
    /\ \A m \in Months : raw[m].exists => TargetExists(m)

\* C13: while every raw log has its monthly file, no step of a run parses a
\* log or creates, overwrites or deletes a monthly file, also when the master
\* is rebuilt from the monthly files; and a monthly file that exists is never
\* overwritten: a monthly file changes only when ingestion creates it and
\* when the write of that file completes.
C13_IngestedMonthsUntouched ==
    [][ /\ AllIngested => (monthly' = monthly /\ pc' # "to_parquet")
        /\ \A m \in Months :
              monthly'[m] # monthly[m] =>
                  \/ ~monthly[m].exists /\ pc = "ingest" /\ pc' = "to_parquet"
                  \/ pc = "to_parquet" /\ m = Head(loop.queue) ]_vars

\* C13 witness: a run that skipped the raw logs, all ingested before, has
\* rebuilt the master from the monthly files
C13_W ==
    /\ pc = "save"
    /\ AllIngested
    /\ \E m \in Months : raw[m].exists
    /\ ~loop.did_ingest_access_log
    /\ masters[mgr.log_data_path].complete

\* C14: whenever a run is Ready, after any earlier runs, a run interrupted
\* between the write of the master file and the save of the coverage
\* included, the coverage file with the base name of the master file exists
\* and the total requests of its summary is the row count of the master table.
C14_ReadyHasCoverageFile ==
    pc = "ready" =>
        /\ covfiles[mgr.log_data_path].exists
        /\ covfiles[mgr.log_data_path].summary.requests = Len(mgr.log_data.rows)

\* a step of _combine_and_write or of _write_incrementally
Builds == CombineAndWrite \/ WriteIncrementally \/ WriteNextTable \/ SaveCoverage

\* the master table and the per-month counts a combination of the monthly
\* files of enriched-logs/ is to give
Combined ==
    LET logs == sorted(Discovered) IN
    [log_data |-> concat([k \in 1..Len(logs) |-> monthly[logs[k]].frame]),
     requests |-> [m \in Discovered |-> Len(monthly[m].frame.rows)]]

NumChecks == 2 + Len(NON_NULL_COLUMNS) + Len(NULL_CONSTRAINTS)

\* whether a frame breaks the i-th check, read off the frame
Violated(df, i) ==
    IF i = 1 THEN Columns(df) # SCHEMA_KEYS
    ELSE IF i = 2
    THEN \E c \in SCHEMA_KEYS \cap Columns(df) : df.dtypes[c] # Dtype(c)
    ELSE IF i <= 2 + Len(NON_NULL_COLUMNS)
    THEN \E row \in Range(df.rows) : NON_NULL_COLUMNS[i - 2] \in row.nulls
    ELSE LET rule == NULL_CONSTRAINTS[i - 2 - Len(NON_NULL_COLUMNS)]
             first == rule.equal[1]
         IN  \E row \in Range(df.rows) :
                \/ \E c \in Range(rule.equal) : (c \in row.nulls) # (first \in row.nulls)
                \/ first \in row.nulls /\ \E c \in Range(rule.at_least) : c \notin row.nulls

\* the check a ValidationError comes from
CheckOf(error) ==
    CASE error.check = "columns" -> 1
      [] error.check = "maltyped" -> 2
      [] error.check = "nulls" ->
            2 + CHOOSE k \in 1..Len(NON_NULL_COLUMNS) : NON_NULL_COLUMNS[k] = error.what[1]
      [] error.check = "mix" ->
            2 + Len(NON_NULL_COLUMNS)
              + CHOOSE k \in 1..Len(NULL_CONSTRAINTS) :
                    NULL_CONSTRAINTS[k].equal[1] = error.what[1]
      [] error.check = "at_least" ->
            2 + Len(NON_NULL_COLUMNS)
              + CHOOSE k \in 1..Len(NULL_CONSTRAINTS) :
                    NULL_CONSTRAINTS[k].equal[1] = error.what[2]

\* C21: validate accepts exactly the frames that break no check, and the
\* ValidationError it raises for any other frame is that of the first check
\* the frame breaks, in the order column set, dtypes, non-null columns in
\* list order, null constraints in list order.
C21_FirstViolatedCheckIsRaised ==
    (val # <<>> /\ val.res # NotValidated) =>
        IF val.res = Accepted
        THEN \A i \in 1..NumChecks : ~Violated(val.df, i)
        ELSE /\ Violated(val.df, CheckOf(val.res))
             /\ \A j \in 1..(CheckOf(val.res) - 1) : ~Violated(val.df, j)

\* a frame with nulls in two non-null columns and a broken null constraint,
\* rejected for the first of the columns
C21_W ==
    /\ val # <<>>
    /\ val.res = ValidationError("nulls", <<"path", 1>>)
    /\ Violated(val.df, CheckOf(ValidationError("nulls", <<"cool_path", 1>>)))
    /\ Violated(val.df, 2 + Len(NON_NULL_COLUMNS) + 1)

\* a frame that breaks no check other than the referrer constraint
ReferrerOnly(df) ==
    \A i \in 1..NumChecks : i # 2 + Len(NON_NULL_COLUMNS) + 2 => ~Violated(df, i)

\* a row with only one of referrer_scheme and referrer_host null
HostMix(df) ==
    \E row \in Range(df.rows) :
        ("referrer_host" \in row.nulls) # ("referrer_scheme" \in row.nulls)

\* a row with a referrer path, query or fragment and no referrer scheme
Dangling(df) ==
    \E row \in Range(df.rows) :
        /\ "referrer_scheme" \in row.nulls
        /\ {"referrer_path", "referrer_query", "referrer_fragment"} \ row.nulls # {}

\* C22: validate rejects a frame with a row where only one of referrer_scheme
\* and referrer_host is null, or where referrer_path, referrer_query or
\* referrer_fragment is set and referrer_scheme is null; a frame that breaks
\* no other check and has no such row is accepted, whatever rows it has with
\* both null or with a scheme and null path, query or fragment.
C22_ReferrerNullsCorrelate ==
    (val # <<>> /\ val.res # NotValidated) =>
        /\ (HostMix(val.df) \/ Dangling(val.df)) => val.res # Accepted
        /\ (ReferrerOnly(val.df) /\ ~HostMix(val.df) /\ ~Dangling(val.df))
               => val.res = Accepted
        /\ (ReferrerOnly(val.df) /\ HostMix(val.df))
               => val.res = ValidationError("mix", <<"referrer_scheme", "referrer_host">>)
        /\ (ReferrerOnly(val.df) /\ ~HostMix(val.df) /\ Dangling(val.df))
               => /\ val.res.check = "at_least"
                  /\ val.res.what[2] = "referrer_scheme"

\* an accepted frame with a row without referrer and a row whose referrer has
\* a scheme and a host and no path, query or fragment
C22_W ==
    /\ val # <<>>
    /\ val.res = Accepted
    /\ \E row \in Range(val.df.rows) : ReferrerColumns \subseteq row.nulls
    /\ \E row \in Range(val.df.rows) :
          row.nulls = {"referrer_path", "referrer_query", "referrer_fragment"}

(***************************************************************************)
(* Claims on MonthInYear (SpecMonth).                                      *)
(***************************************************************************)
\* the months since year 0, counted on the calendar
Ordinal(m) == m.year * 12 + (m.month - 1)

\* C26: every operation on a valid month m yields a month in 1..12 that lies
\* on the calendar where the operation says; next and previous undo each
\* other and are + 1 and - 1; for n >= 0, (m + n) - n = m and (m + n) - m = n;
\* and m < m.next() in the order of the tuples.
C26_MonthArithmeticIsConsistent ==
    [][ miy # <<>> =>
          LET m == miy.at
              n == miy.n
              r == miy'.at
          IN  /\ r.month \in 1..12
              /\ miy'.op = "next" =>
                    /\ Ordinal(r) = Ordinal(m) + 1
                    /\ r = add(m, 1)
                    /\ previous(r) = m
                    /\ less(m, r) /\ ~less(r, m)
              /\ miy'.op = "previous" =>
                    /\ Ordinal(r) = Ordinal(m) - 1
                    /\ r = sub(m, 1)
                    /\ next(r) = m
                    /\ less(r, m)
              /\ miy'.op = "add" =>
                    /\ Ordinal(r) = Ordinal(m) + n
                    /\ months_between(r, m) = n
                    /\ sub(r, n) = m
              /\ miy'.op = "sub" =>
                    /\ Ordinal(r) = Ordinal(m) - n
                    /\ miy.op = "add" => r = miy.was
              /\ (miy'.op = "previous" /\ miy.op = "next") => r = miy.was
              /\ (miy'.op = "next" /\ miy.op = "previous") => r = miy.was
      ]_vars

\* more than a year was added to a month, with a carry out of December, and
\* subtracted again
C26_W ==
    /\ miy # <<>>
    /\ miy.op = "sub" /\ miy.before = "add"
    /\ miy.n > 12 /\ miy.n % 12 # 0
    /\ miy.was.month < miy.at.month
    /\ miy.was.year = miy.at.year + 2

(***************************************************************************)
(* Claims on BotDetector (SpecBot).                                        *)
(***************************************************************************)
\* the bots of bots.yml other than the catch-all whose regex matches
KnownBots(user_agent) ==
    {k \in 1..(Len(BotsYml) - 1) : search(BotsYml[k].regex, user_agent)}

\* test and lookup agree with each other and with their first answers
AnswersAgree ==
    LET ua == det.last.user_agent
        tested == det.called[<<"test", ua>>]
        looked == det.called[<<"lookup", ua>>]
    IN  /\ det.last.result = det.called[<<det.last.op, ua>>]
        /\ tested # "" => tested = bool(is_bot_search(ua))
        /\ looked # "" => (looked = None) = ~is_bot_search(ua)
        /\ (tested # "" /\ looked # "") => (tested = "True") = (looked # None)

\* lookup returns None or the record of a bot whose regex matches
LookupIsRecord ==
    (det.last.op = "lookup" /\ det.last.result # None) =>
        /\ \E k \in 1..Len(Bots) : Bots[k].name = det.last.result
        /\ search(Bots[BotNamed(det.last.result)].regex, det.last.user_agent)

\* C29: in any sequence of test and lookup calls on one BotDetector, test(ua)
\* is true exactly when lookup(ua) returns a record, every call returns what
\* the first call with its user agent returned, and lookup returns the
\* record of the known bot whose regex matches ua, never True.
C29_TestAndLookupAgree ==
    (det # <<>> /\ det.last.op # "none") =>
        /\ AnswersAgree
        /\ LookupIsRecord
        /\ (det.last.op = "lookup" /\ KnownBots(det.last.user_agent) # {}) =>
              \E k \in KnownBots(det.last.user_agent) :
                  BotsYml[k].name = det.last.result

(***************************************************************************)
(* Claims on the enrichment passes (SpecEnrich).                           *)
(***************************************************************************)
\* the passes that have returned
Done == Range(enr.done)

\* the addresses of the batch that hostnames.json did not hold at first
Fresh == Range(enr.log_data.client_address) \ DOMAIN enr.file0.data

\* C23: no failure of a reverse-DNS or geolocation lookup leaves its pass;
\* after the hostname pass every record whose address resolves, or is in
\* hostnames.json with a name, has that name, and after the location pass
\* every record whose address the database holds has its location, the
\* others the null values.
C23_LookupFailuresDegradePerRecord ==
    enr # <<>> =>
        /\ enr.pass # "raised"
        /\ "client_name" \in Done =>
              \A r \in DOMAIN enr.log_data.client_address :
                  LET address == enr.log_data.client_address[r]
                  IN  enr.log_data.client_name[r] =
                          IF address \in DOMAIN enr.file0.data
                          THEN enr.file0.data[address]
                          ELSE resolve(enr.dns, address)
        /\ "client_location" \in Done =>
              \A r \in DOMAIN enr.log_data.client_address :
                  (enr.log_data.client_latitude[r] = "nan")
                      = (enr.log_data.client_address[r] \notin Located)

\* C27: in a hostname pass only addresses that hostnames.json did not hold
\* are looked up, each once, also when the lookup failed; the file is
\* written once, after the last lookup, and keeps the entries it had.
C27_OneLookupPerNewAddressOneSave ==
    enr # <<>> =>
        /\ \A k \in DOMAIN enr.events :
              enr.events[k][1] = "lookup" =>
                  /\ enr.events[k][2] \in Fresh
                  /\ \A j \in 1..(k - 1) : enr.events[j] # enr.events[k]
        /\ "client_name" \notin Done =>
              /\ enr.file = enr.file0
              /\ \A k \in DOMAIN enr.events : enr.events[k][1] # "save"
        /\ "client_name" \in Done =>
              /\ Len(enr.events) = Cardinality(Fresh) + 1
              /\ enr.events[Len(enr.events)][1] = "save"
              /\ \A k \in 1..(Len(enr.events) - 1) : enr.events[k][1] = "lookup"
              /\ enr.file.exists
              /\ DOMAIN enr.file.data
                    = DOMAIN enr.file0.data \cup Range(enr.log_data.client_address)
              /\ \A address \in DOMAIN enr.file0.data :
                    enr.file.data[address] = enr.file0.data[address]

\* a pass over two records of one address that does not resolve, next to a
\* file that held a failed lookup of another address: one lookup, one save
C27_W ==
    /\ enr # <<>>
    /\ "client_name" \in Done
    /\ Len(enr.log_data.client_address) = 2
    /\ enr.log_data.client_address[1] = enr.log_data.client_address[2]
    /\ enr.log_data.client_name = <<None, None>>
    /\ enr.file0.exists /\ DOMAIN enr.file0.data # {}
    /\ enr.events = <<<<"lookup", "2.2.2.2">>, <<"save", "hostnames.json">>>>

\* the batch after the three passes, read off the parsed batch, the
\* hostnames.json before the pass and the backends
Enriched ==
    [c \in DOMAIN enr.log_data |->
        [r \in DOMAIN enr.log_data.client_address |->
            LET address == enr.log_data.client_address[r]
                user_agent == enr.log_data.user_agent[r]
            IN  IF c = "client_address" THEN address
                ELSE IF c = "user_agent" THEN user_agent
                ELSE IF c = "client_name"
                THEN (IF address \in DOMAIN enr.file0.data
                      THEN enr.file0.data[address] ELSE resolve(enr.dns, address))
                ELSE IF c \in LocationColumns THEN LocationRow(address)[c]
                ELSE UserAgentRow(user_agent)[c]]]

\* C28: a step of a pass appends one value to each column of the pass and
\* changes no other column, and once the three passes have returned, in
\* whatever order, every column has one value for each record and the batch
\* is the same.
C28_PassesAppendOnePerRowInAnyOrder ==
    [][ enr # <<>> =>
          /\ \A c \in DOMAIN enr.log_data :
                \/ enr'.log_data[c] = enr.log_data[c]
                \/ /\ c \in PassColumns(enr.pass)
                   /\ Len(enr'.log_data[c]) = Len(enr.log_data[c]) + 1
                   /\ SubSeq(enr'.log_data[c], 1, Len(enr.log_data[c])) = enr.log_data[c]
          /\ enr'.i = enr.i + 1 =>
                \A c \in PassColumns(enr.pass) :
                    Len(enr'.log_data[c]) = Len(enr.log_data[c]) + 1
          /\ Range(enr'.done) = Passes =>
                /\ \A c \in DOMAIN enr.log_data :
                      Len(enr'.log_data[c]) = Len(enr.log_data.client_address)
                /\ enr'.log_data = Enriched
      ]_vars

\* two records, one located and one not, one of a bot and one without user
\* agent, enriched by the passes in the reverse of the order of enrich()
C28_W ==
    /\ enr # <<>>
    /\ enr.done = <<"user_agent", "client_location", "client_name">>
    /\ Len(enr.log_data.client_address) = 2
    /\ enr.log_data.client_latitude[1] = "nan"
    /\ enr.log_data.client_latitude[2] # "nan"
    /\ enr.log_data.is_bot = <<"True", "False">>

====
